---- MODULE Spec2Model ----
(***************************************************************************)
(* Model of the csp package (csp/uri.py, csp/sourceexpression.py,          *)
(* csp/directive.py, csp/policy.py, csp/report.py): the immutable value    *)
(* types URI, SourceExpression, Directive and Policy, their matches        *)
(* methods, the combination and decomposition operations, the parsers of   *)
(* source expressions, directives and policies, and Report.generatePolicy. *)
(*                                                                         *)
(* Representation.                                                         *)
(*  - Python's None is the empty tuple, a present value x is <<x>>.        *)
(*  - Host and path strings are tuples of one-character strings, so that   *)
(*    slicing, prefixes and suffixes are computed as Python computes them. *)
(*  - Scheme names and directive types are only ever compared, lower-cased *)
(*    and looked up, so they are atomic strings.                           *)
(*  - A call either returns True or False or raises; the outcome of a      *)
(*    call is one of "True", "False", "AttributeError", "TypeError".       *)
(***************************************************************************)
EXTENDS Integers, Sequences, FiniteSets, TLC

VARIABLES
    pc,                      \* "start", or the name of the method that has run
    srcExpr,                 \* receiver of a SourceExpression method
    direct,                  \* receiver of a Directive method
    otherDirective,          \* argument of Directive.combinedDirective
    policy,                  \* receiver of a Policy method
    otherPolicy,             \* argument of Policy.combinedPolicy
    resourceURI,             \* argument 'resourceURI' of matches
    resourceType,            \* argument 'resourceType' of Policy.matches
    protectedDocumentURI,    \* argument 'protectedDocumentURI' of matches
    result,                  \* what the call returned (or the exception raised)
    reportType,              \* argument 'reportType' of generateDirective
    text,                    \* argument of a parser's parse method
    parser,                  \* the options the parser was constructed with
    matched,                 \* outcomes of the matches calls made on a result
    inputDirectives,         \* argument 'directives' of the Policy constructor
    schemeOnlyArg,           \* argument 'schemeOnly' of withoutPaths
    reports,                 \* the reports a policy has been accumulated from
    cache,                   \* the class attribute that holds a sentinel
    heap,                    \* the objects constructed by the sentinel accessors
    threads                  \* the threads that call a sentinel accessor

vars == <<pc, srcExpr, direct, otherDirective, policy, otherPolicy,
          resourceURI, resourceType, protectedDocumentURI, result,
          reportType, text, parser, matched,
          inputDirectives, schemeOnlyArg, reports, cache, heap, threads>>

-----------------------------------------------------------------------------
(* Python values *)

None == <<>>

Some(x) == <<x>>

\* bool as the outcome of a call
Bool(b) == IF b THEN "True" ELSE "False"

Exceptions == {"AttributeError", "TypeError"}

\* str.lower() on one character of the alphabet used for hosts
lowerChar(c) ==
    CASE c = "A" -> "a"
      [] c = "B" -> "b"
      [] OTHER -> c

\* str.lower() on a host string
RECURSIVE lowerText(_)
lowerText(s) ==
    IF s = <<>> THEN <<>> ELSE <<lowerChar(Head(s))>> \o lowerText(Tail(s))

\* str.lower() on a scheme name
lowerScheme(s) ==
    CASE s = "HTTP" -> "http"
      [] s = "HTTPS" -> "https"
      [] s = "WS" -> "ws"
      [] OTHER -> s

\* s[-k:] for k >= 1: the last k characters, or all of s when it is shorter
lastChars(s, k) ==
    IF k >= Len(s) THEN s ELSE SubSeq(s, Len(s) - k + 1, Len(s))

\* s[:k]: the first k characters, or all of s when it is shorter
firstChars(s, k) ==
    IF k >= Len(s) THEN s ELSE SubSeq(s, 1, k)

-----------------------------------------------------------------------------
(* csp/defaults.py *)

\* defaults.schemePortMappings, restricted to the schemes of the model:
\* 'ws' stands for the schemes mapped to None; 'ftp' is not a key.
schemePortMappings ==
    [s \in {"http", "https", "ws"} |->
        CASE s = "http" -> Some(80)
          [] s = "https" -> Some(443)
          [] s = "ws" -> None]

defaultSrcReplacementDirectiveTypes ==
    {"child-src", "connect-src", "font-src", "img-src", "media-src",
     "object-src", "script-src", "style-src"}

-----------------------------------------------------------------------------
(* csp/uri.py: class URI *)

\* URI._makeEmptyNone / URISourceExpression._makeEmptyNone; 'empty' is the
\* empty string of the argument's representation
makeEmptyNone(string, empty) ==
    IF string # None /\ string[1] = empty THEN None ELSE string

URI(scheme, host, port, path, query) ==
    [scheme |-> makeEmptyNone(scheme, ""),
     host |-> host,
     port |-> port,
     path |-> makeEmptyNone(path, <<>>),
     query |-> makeEmptyNone(query, <<>>),
     isRegularURI |-> TRUE]

URI_INVALID ==
    [URI(None, Some(<<"[invalid]">>), None, None, None) EXCEPT !.isRegularURI = FALSE]

URI_EMPTY ==
    [URI(None, Some(<<"[empty]">>), None, None, None) EXCEPT !.isRegularURI = FALSE]

URI_INLINE ==
    [URI(None, Some(<<"[inline]">>), None, None, None) EXCEPT !.isRegularURI = FALSE]

URI_EVAL ==
    [URI(None, Some(<<"[eval]">>), None, None, None) EXCEPT !.isRegularURI = FALSE]

-----------------------------------------------------------------------------
(* csp/sourceexpression.py *)

\* the port '*' of a URISourceExpression (a string in the code, so never
\* equal to a port number)
StarPort == -1

SourceExpression(exprType) ==
    [type |-> exprType, scheme |-> None, host |-> None, port |-> None, path |-> None]

UNSAFE_INLINE == SourceExpression("unsafe-inline")

UNSAFE_EVAL == SourceExpression("unsafe-eval")

SourceExpression_INVALID == SourceExpression("[invalid]")

SELF == SourceExpression("self")

URISourceExpression(scheme, host, port, path) ==
    LET s == makeEmptyNone(scheme, "")
        h == makeEmptyNone(host, <<>>)
    IN  [type |-> "uri",
         scheme |-> IF s # None THEN Some(lowerScheme(s[1])) ELSE None,
         host |-> IF h # None THEN Some(lowerText(h[1])) ELSE None,
         port |-> port,
         path |-> makeEmptyNone(path, <<>>)]

\* SourceExpression.matches with the two keywords not told apart
SourceExpression_matches_anyKeyword(self, uri, documentURI, portMappings) ==
    Bool(self \in {UNSAFE_EVAL, UNSAFE_INLINE} /\ uri \in {URI_EVAL, URI_INLINE})

\* SourceExpression.matches: the keyword expressions and [invalid]
SourceExpression_matches(self, uri, documentURI, portMappings) ==
    IF self = UNSAFE_EVAL /\ uri = URI_EVAL THEN "True"
    ELSE IF self = UNSAFE_INLINE /\ uri = URI_INLINE THEN "True"
    ELSE "False"

\* SelfSourceExpression._getPort
getPort(scheme, portMappings) ==
    IF lowerScheme(scheme) \in DOMAIN portMappings
    THEN portMappings[lowerScheme(scheme)]
    ELSE None

SelfSourceExpression_matches(self, uri, documentURI, portMappings) ==
    IF ~uri.isRegularURI THEN "False"
    ELSE IF documentURI.scheme = None \/ uri.scheme = None THEN "False"
    ELSE
      LET myPort == IF documentURI.port = None
                    THEN getPort(documentURI.scheme[1], portMappings)
                    ELSE documentURI.port
          otherPort == IF uri.port = None
                       THEN getPort(uri.scheme[1], portMappings)
                       ELSE uri.port
      IN  IF myPort = None THEN "False"
          ELSE IF otherPort = None THEN "False"
          ELSE Bool(/\ documentURI.scheme = uri.scheme
                    /\ documentURI.host = uri.host
                    /\ myPort = otherPort)

\* lines 328-335 with the two tests against the protected document left out
checkScheme_ignoringDocument(self, uriScheme, documentURI) ==
    IF self.scheme # None /\ self.scheme # uriScheme THEN "False"
    ELSE IF documentURI.scheme = None THEN "AttributeError"
    ELSE "pass"

\* URISourceExpression.matches, lines 328-335: the scheme of the resource
\* URI against the expression's scheme or, without one, the protected
\* document's; "pass" when the method goes on to the next check
checkScheme(self, uriScheme, documentURI) ==
    IF self.scheme # None /\ self.scheme # uriScheme THEN "False"
    \* protectedDocumentURI.getScheme().lower() on None
    ELSE IF documentURI.scheme = None THEN "AttributeError"
    ELSE
      LET protectedURIScheme == Some(lowerScheme(documentURI.scheme[1]))
      IN  IF self.scheme = None /\ protectedURIScheme = Some("http")
             /\ uriScheme \notin {Some("http"), Some("https")} THEN "False"
          ELSE IF self.scheme = None /\ protectedURIScheme # Some("http")
                  /\ protectedURIScheme # uriScheme THEN "False"
          ELSE "pass"

\* URISourceExpression.matches, lines 337-341
checkHost(self, uriHost) ==
    IF self.host # None /\ Head(self.host[1]) = "*" /\ Len(self.host[1]) > 1
       /\ Tail(self.host[1]) # lastChars(uriHost, Len(self.host[1]) - 1)
    THEN "False"
    ELSE IF self.host # None /\ Head(self.host[1]) # "*" /\ self.host[1] # uriHost
    THEN "False"
    ELSE "pass"

\* URISourceExpression.matches, lines 343-347
checkPort(self, uriScheme, uriPort, portMappings) ==
    IF self.port = None /\ uriScheme # None
       /\ uriScheme[1] \in DOMAIN portMappings
       /\ uriPort # portMappings[uriScheme[1]] THEN "False"
    \* int(uriPort) on None
    ELSE IF self.port # None /\ self.port # Some(StarPort) /\ uriPort = None
    THEN "TypeError"
    ELSE IF self.port # None /\ self.port # Some(StarPort)
            /\ self.port[1] # uriPort[1] THEN "False"
    ELSE "pass"

\* lines 349-352 with every expression path taken as a prefix
checkPath_prefixAlways(self, uriPath) ==
    IF self.path # None /\ self.path[1] # firstChars(uriPath, Len(self.path[1]))
    THEN "False"
    ELSE "pass"

\* URISourceExpression.matches, lines 349-352
checkPath(self, uriPath) ==
    IF self.path # None /\ lastChars(self.path[1], 1) = <<"/">>
       /\ self.path[1] # firstChars(uriPath, Len(self.path[1])) THEN "False"
    ELSE IF self.path # None /\ lastChars(self.path[1], 1) # <<"/">>
            /\ self.path[1] # uriPath THEN "False"
    ELSE "pass"

URISourceExpression_matches(self, uri, documentURI, portMappings) ==
    IF ~uri.isRegularURI THEN "False"
    \* only *
    ELSE IF self.scheme = None /\ self.host = Some(<<"*">>)
            /\ self.port = None /\ self.path = None THEN "True"
    ELSE
      LET uriScheme == IF uri.scheme # None
                       THEN Some(lowerScheme(uri.scheme[1])) ELSE None
      IN
      \* only scheme:
      IF self.scheme # None /\ self.scheme = uriScheme /\ self.host = None
         /\ self.port = None /\ self.path = None THEN "True"
      ELSE IF uri.host = None THEN "False"
      ELSE
        LET uriHost == lowerText(uri.host[1])
            uriPort == IF uri.port = None /\ uriScheme # None
                          /\ uriScheme[1] \in DOMAIN portMappings
                       THEN portMappings[uriScheme[1]]
                       ELSE uri.port
            uriPath == IF uri.path = None \/ uri.path = Some(<<>>)
                       THEN <<"/">> ELSE uri.path[1]
            scheme == checkScheme(self, uriScheme, documentURI)
            host == checkHost(self, uriHost)
            port == checkPort(self, uriScheme, uriPort, portMappings)
            path == checkPath(self, uriPath)
        IN  IF scheme # "pass" THEN scheme
            ELSE IF host # "pass" THEN host
            ELSE IF port # "pass" THEN port
            ELSE IF path # "pass" THEN path
            ELSE "True"

\* srcExpr.matches(...) as dispatched on the class of srcExpr
matches(self, uri, documentURI, portMappings) ==
    CASE self.type = "uri" ->
            URISourceExpression_matches(self, uri, documentURI, portMappings)
      [] self.type = "self" ->
            SelfSourceExpression_matches(self, uri, documentURI, portMappings)
      [] OTHER ->
            SourceExpression_matches(self, uri, documentURI, portMappings)

-----------------------------------------------------------------------------
(* csp/directive.py: class Directive *)

Directive(directiveType, whitelistedSourceExpressions) ==
    [directiveType |-> directiveType,
     whitelistedSourceExpressions |->
        {x \in whitelistedSourceExpressions : x # SourceExpression_INVALID},
     isRegularDirective |-> TRUE]

Directive_INVALID ==
    [Directive("[invalid]", {}) EXCEPT !.isRegularDirective = FALSE]

INLINE_STYLE_BASE_RESTRICTION ==
    [Directive("[inline style base restriction]", {}) EXCEPT !.isRegularDirective = FALSE]

INLINE_SCRIPT_BASE_RESTRICTION ==
    [Directive("[inline script base restriction]", {}) EXCEPT !.isRegularDirective = FALSE]

EVAL_SCRIPT_BASE_RESTRICTION ==
    [Directive("[eval script base restriction]", {}) EXCEPT !.isRegularDirective = FALSE]

getType(self) ==
    IF self = INLINE_STYLE_BASE_RESTRICTION THEN "style-src"
    ELSE IF self = INLINE_SCRIPT_BASE_RESTRICTION THEN "script-src"
    ELSE IF self = EVAL_SCRIPT_BASE_RESTRICTION THEN "script-src"
    ELSE self.directiveType

\* Directive.matches: the set of outcomes the call can have. The loop runs
\* over a frozenset, whose iteration order is not fixed by the code; it
\* returns True at the first expression that matches and is left by the
\* first exception, so either can come first when both are present.
Directive_matches(self, uri, documentURI, portMappings) ==
    IF ~self.isRegularDirective THEN {"False"}
    ELSE
      LET outcomes == {matches(srcExpr_, uri, documentURI, portMappings) :
                          srcExpr_ \in self.whitelistedSourceExpressions}
      IN  (outcomes \cap Exceptions)
            \cup (IF "True" \in outcomes THEN {"True"} ELSE {})
            \cup (IF outcomes \subseteq {"False"} THEN {"False"} ELSE {})

\* Directive.combinedDirective keeping this directive's whitelist only
Directive_combinedDirective_keepsSelf(self, other) ==
    IF ~self.isRegularDirective \/ ~other.isRegularDirective
    THEN Directive_INVALID
    ELSE IF getType(other) # getType(self) THEN Directive_INVALID
    ELSE Directive(getType(self), self.whitelistedSourceExpressions)

Directive_combinedDirective(self, other) ==
    IF ~self.isRegularDirective \/ ~other.isRegularDirective
    THEN Directive_INVALID
    ELSE LET dirType == getType(self)
         IN  IF getType(other) # dirType THEN Directive_INVALID
             ELSE Directive(dirType, self.whitelistedSourceExpressions
                                       \cup other.whitelistedSourceExpressions)

\* the test of lines 180-190 without the test for URI.INVALID()
generateDirectiveRefused_invalidURIAllowed(self, repType, blockedURI) ==
    \/ self = Directive_INVALID
    \/ (self = EVAL_SCRIPT_BASE_RESTRICTION /\ repType # "eval")
    \/ (self = INLINE_SCRIPT_BASE_RESTRICTION /\ repType # "inline")
    \/ (self = INLINE_STYLE_BASE_RESTRICTION /\ repType # "inline")
    \/ getType(self) = "default-src"
    \/ repType \notin {"regular", "eval", "inline"}
    \/ (repType = "regular" /\ ~blockedURI.isRegularURI)
    \/ (repType = "eval" /\ getType(self) # "script-src")
    \/ (repType = "inline" /\ getType(self) \notin {"script-src", "style-src"})

\* Directive.generateDirective, lines 180-190: the cases that return
\* Directive.INVALID()
generateDirectiveRefused(self, repType, blockedURI) ==
    \/ self = Directive_INVALID
    \/ (self = EVAL_SCRIPT_BASE_RESTRICTION /\ repType # "eval")
    \/ (self = INLINE_SCRIPT_BASE_RESTRICTION /\ repType # "inline")
    \/ (self = INLINE_STYLE_BASE_RESTRICTION /\ repType # "inline")
    \/ getType(self) = "default-src"
    \/ repType \notin {"regular", "eval", "inline"}
    \/ blockedURI = URI_INVALID
    \/ (repType = "regular" /\ ~blockedURI.isRegularURI)
    \/ (repType = "eval" /\ getType(self) # "script-src")
    \/ (repType = "inline" /\ getType(self) \notin {"script-src", "style-src"})

Directive_generateDirective(self, repType, blockedURI) ==
    IF generateDirectiveRefused(self, repType, blockedURI) THEN Directive_INVALID
    ELSE IF repType = "regular"
    THEN Directive(getType(self),
                   {URISourceExpression(blockedURI.scheme, blockedURI.host,
                                        blockedURI.port, blockedURI.path)})
    ELSE IF repType = "eval" THEN Directive(getType(self), {UNSAFE_EVAL})
    ELSE IF repType = "inline" THEN Directive(getType(self), {UNSAFE_INLINE})
    ELSE Directive_INVALID

-----------------------------------------------------------------------------
(* csp/policy.py: class Policy *)

\* Policy.__init__ keeping every regular directive it is given
Policy_keepsDuplicates(directives) ==
    {[isInvalid |-> FALSE,
      directives |-> {x \in directives : x.isRegularDirective}]}

\* the values dict(map(...)) can be left with: one directive of onlyRegular
\* for each of the types
RECURSIVE survivors(_, _)
survivors(types, onlyRegular) ==
    IF types = {} THEN {{}}
    ELSE LET t == CHOOSE u \in types : TRUE
         IN  {others \cup {x} :
                 others \in survivors(types \ {t}, onlyRegular),
                 x \in {y \in onlyRegular : getType(y) = t}}

\* Policy.__init__: the policies the constructor can build from 'directives'.
\* dict(map(...)) keeps, for each type, the directive that comes last in the
\* iteration order of 'directives'; for a set that order is not fixed by the
\* code, so any directive of a type can be the one kept.
Policy(directives) ==
    LET onlyRegular == {x \in directives : x.isRegularDirective}
        types == {getType(x) : x \in onlyRegular}
    IN  {[isInvalid |-> FALSE, directives |-> kept] :
            kept \in survivors(types, onlyRegular)}

Policy_INVALID == [isInvalid |-> TRUE, directives |-> {}]

_defaultSrcDirectiveIfNotSpecified ==
    Directive("default-src", {URISourceExpression(None, Some(<<"*">>), None, None)})

\* str.lower() on a directive type
lowerType(t) ==
    CASE t = "SCRIPT-SRC" -> "script-src"
      [] t = "IMG-SRC" -> "img-src"
      [] t = "DEFAULT-SRC" -> "default-src"
      [] OTHER -> t

\* Policy.matches falling back to default-src whatever the resource type
Policy_matches_alwaysDefault(self, uri, resType, documentURI, portMappings, defaultSrcTypes) ==
    IF \E d \in self.directives : getType(d) = resType
    THEN UNION {Directive_matches(d, uri, documentURI, portMappings) :
                   d \in {x \in self.directives : getType(x) = resType}}
    ELSE IF \E d \in self.directives : getType(d) = "default-src"
    THEN UNION {Directive_matches(d, uri, documentURI, portMappings) :
                   d \in {x \in self.directives : getType(x) = "default-src"}}
    ELSE Directive_matches(_defaultSrcDirectiveIfNotSpecified, uri,
                           documentURI, portMappings)

\* Policy.matches, after resourceType = resourceType.lower()
Policy_matches_lowered(self, uri, resType, documentURI, portMappings, defaultSrcTypes) ==
    IF \E d \in self.directives : getType(d) = resType
    THEN UNION {Directive_matches(d, uri, documentURI, portMappings) :
                   d \in {x \in self.directives : getType(x) = resType}}
    ELSE IF resType \notin defaultSrcTypes THEN {"False"}
    ELSE IF \E d \in self.directives : getType(d) = "default-src"
    THEN UNION {Directive_matches(d, uri, documentURI, portMappings) :
                   d \in {x \in self.directives : getType(x) = "default-src"}}
    ELSE Directive_matches(_defaultSrcDirectiveIfNotSpecified, uri,
                           documentURI, portMappings)

\* Policy.matches: the set of outcomes the call can have
Policy_matches(self, uri, resType, documentURI, portMappings, defaultSrcTypes) ==
    IF self = Policy_INVALID THEN {"False"}
    ELSE Policy_matches_lowered(self, uri, lowerType(resType), documentURI,
                                portMappings, defaultSrcTypes)

\* the test of lines 66-70 looking at this policy only
defaultSrcConflict_oneSided(myTypes, otherTypes) ==
    /\ "default-src" \in myTypes \cup otherTypes
    /\ \/ ("default-src" \notin myTypes /\ Cardinality(myTypes) > 0)
       \/ ("default-src" \in myTypes /\ Cardinality(myTypes) > 1)

\* the test of lines 66-70 with 'len(...) > 1' read as 'len(...) >= 1'
defaultSrcConflict_strict(myTypes, otherTypes) ==
    /\ "default-src" \in myTypes \cup otherTypes
    /\ \/ ("default-src" \notin myTypes /\ Cardinality(myTypes) > 0)
       \/ ("default-src" \in myTypes /\ Cardinality(myTypes) >= 1)
       \/ ("default-src" \notin otherTypes /\ Cardinality(otherTypes) > 0)
       \/ ("default-src" \in otherTypes /\ Cardinality(otherTypes) >= 1)

\* Policy.combinedPolicy, lines 66-70: 'default-src' occurs and is not the
\* only directive type of both policies
defaultSrcConflict(myTypes, otherTypes) ==
    /\ "default-src" \in myTypes \cup otherTypes
    /\ \/ ("default-src" \notin myTypes /\ Cardinality(myTypes) > 0)
       \/ ("default-src" \in myTypes /\ Cardinality(myTypes) > 1)
       \/ ("default-src" \notin otherTypes /\ Cardinality(otherTypes) > 0)
       \/ ("default-src" \in otherTypes /\ Cardinality(otherTypes) > 1)

\* Policy.combinedPolicy taking, for a type both policies have, the
\* directive of 'other' instead of the combination
Policy_combinedPolicy_otherWins(self, other) ==
    IF self = Policy_INVALID \/ other = Policy_INVALID THEN {Policy_INVALID}
    ELSE
      LET myDirectives == [t \in {getType(x) : x \in self.directives} |->
                              CHOOSE x \in self.directives : getType(x) = t]
          otherDirectives == [t \in {getType(x) : x \in other.directives} |->
                              CHOOSE x \in other.directives : getType(x) = t]
          myTypes == DOMAIN myDirectives
          otherTypes == DOMAIN otherDirectives
          allDirectiveTypes == myTypes \cup otherTypes
          combined(t) ==
              IF t \notin otherTypes THEN myDirectives[t] ELSE otherDirectives[t]
      IN
      IF defaultSrcConflict(myTypes, otherTypes)
      THEN {Policy_INVALID}
      ELSE Policy({combined(t) : t \in allDirectiveTypes})

\* Policy.combinedPolicy: the set of policies the call can return
Policy_combinedPolicy(self, other) ==
    IF self = Policy_INVALID \/ other = Policy_INVALID THEN {Policy_INVALID}
    ELSE
      LET myDirectives == [t \in {getType(x) : x \in self.directives} |->
                              CHOOSE x \in self.directives : getType(x) = t]
          otherDirectives == [t \in {getType(x) : x \in other.directives} |->
                              CHOOSE x \in other.directives : getType(x) = t]
          myTypes == DOMAIN myDirectives
          otherTypes == DOMAIN otherDirectives
          allDirectiveTypes == myTypes \cup otherTypes
          combined(t) ==
              IF t \notin myTypes THEN otherDirectives[t]
              ELSE IF t \notin otherTypes THEN myDirectives[t]
              ELSE Directive_combinedDirective(myDirectives[t], otherDirectives[t])
      IN
      IF defaultSrcConflict(myTypes, otherTypes)
      THEN {Policy_INVALID}
      ELSE IF \E t \in allDirectiveTypes : combined(t) = Directive_INVALID
      THEN {Policy_INVALID}
      ELSE Policy({combined(t) : t \in allDirectiveTypes})

-----------------------------------------------------------------------------
(* The parsers: csp/sourceexpression.py SourceExpressionParser,            *)
(* csp/directive.py DirectiveParser, csp/policy.py PolicyParser.           *)
(*                                                                         *)
(* A source expression token is an atomic string. A directive text is the  *)
(* record [type, tokens] of what str.partition(" ") and str.split() cut    *)
(* the stripped text into: 'type' is the text before the first space and   *)
(* 'tokens' the whitespace-separated words after it; tokens = <<>> stands  *)
(* for a text without any space, so that 'type' is then the whole text. A  *)
(* policy text is the sequence of the directive texts between its ";".     *)

\* defaults.supportedSchemes
supportedSchemes == DOMAIN schemePortMappings

\* defaults.directiveTypeTranslations
directiveTypeTranslations == [t \in {"xhr-src"} |-> "connect-src"]

\* defaults.allowedDirectiveTypes
allowedDirectiveTypes ==
    {"base-uri", "child-src", "connect-src", "default-src", "font-src",
     "form-action", "frame-ancestors", "frame-src", "img-src", "media-src",
     "object-src", "script-src", "style-src"}

\* defaults.ignoredDirectiveTypes
ignoredDirectiveTypes ==
    {"plugin-types", "referrer", "reflected-xss", "report-uri", "sandbox"}

\* str.lower() on a source expression token
lowerToken(t) ==
    CASE t = "'NONE'" -> "'none'"
      [] t = "'SELF'" -> "'self'"
      [] t = "'UNSAFE-EVAL'" -> "'unsafe-eval'"
      [] t = "'Unsafe-Inline'" -> "'unsafe-inline'"
      [] t = "HTTP://A" -> "http://a"
      [] OTHER -> t

\* str.lower() on the text before the first space of a directive text
lowerDirectiveType(t) ==
    CASE t = "SANDBOX" -> "sandbox"
      [] t = "XHR-SRC" -> "xhr-src"
      [] OTHER -> lowerType(t)

\* SourceExpressionURIParser.parse (URIParser.parse with addScheme and
\* addPort off) on the tokens of the model: what urlparse, the netloc
\* expression and the lower-casing of scheme and host make of each of them.
\* A token whose netloc does not fit the expression is URI.INVALID().
SourceExpressionURIParser_parse(uriString) ==
    CASE uriString \in {"http://a", "HTTP://A"} ->
            URI(Some("http"), Some(<<"a">>), None, None, None)
      [] uriString = "http://a/p" ->
            URI(Some("http"), Some(<<"a">>), None, Some(<<"/", "p">>), None)
      [] uriString = "ws://a:80" ->
            URI(Some("ws"), Some(<<"a">>), Some(80), None, None)
      [] uriString = "ftp://a" ->
            URI(Some("ftp"), Some(<<"a">>), None, None, None)
      [] uriString = "a" ->
            URI(None, Some(<<"a">>), None, None, None)
      [] OTHER -> URI_INVALID

\* SourceExpressionParser.parse
SourceExpressionParser_parse(knownSchemes, sourceExpressionString) ==
    IF lowerToken(sourceExpressionString) = "'unsafe-eval'" THEN UNSAFE_EVAL
    ELSE IF lowerToken(sourceExpressionString) = "'unsafe-inline'" THEN UNSAFE_INLINE
    ELSE IF lowerToken(sourceExpressionString) = "'self'" THEN SELF
    ELSE IF sourceExpressionString = "*"
    THEN URISourceExpression(None, Some(<<"*">>), None, None)
    ELSE
      LET sourceExpressionParsedAsURI ==
              SourceExpressionURIParser_parse(sourceExpressionString)
      IN
      IF sourceExpressionParsedAsURI \in {URI_EMPTY, URI_INVALID}
      THEN SourceExpression_INVALID
      ELSE IF /\ sourceExpressionParsedAsURI.scheme # None
              /\ lowerScheme(sourceExpressionParsedAsURI.scheme[1]) \notin knownSchemes
      THEN SourceExpression_INVALID
      ELSE URISourceExpression(sourceExpressionParsedAsURI.scheme,
                               sourceExpressionParsedAsURI.host,
                               sourceExpressionParsedAsURI.port,
                               sourceExpressionParsedAsURI.path)

\* the error conditions of the token loop with 'unsafe-eval' accepted in
\* every directive type
rejectedSourceExpression_evalAnywhere(directiveType, parsedExpr) ==
    \/ parsedExpr = SourceExpression_INVALID
    \/ parsedExpr = UNSAFE_INLINE
          /\ directiveType \notin {"script-src", "style-src", "default-src"}

\* the three error conditions of the token loop of DirectiveParser.parse
rejectedSourceExpression(directiveType, parsedExpr) ==
    \/ parsedExpr = SourceExpression_INVALID
    \/ parsedExpr = UNSAFE_EVAL /\ directiveType \notin {"script-src", "default-src"}
    \/ parsedExpr = UNSAFE_INLINE
          /\ directiveType \notin {"script-src", "style-src", "default-src"}

\* the token loop of DirectiveParser.parse when it runs to its end: the
\* source expressions added to validWhitelistedSourceExpressions
validWhitelist(directiveType, whitelistedResources) ==
    LET parsed(i) == SourceExpressionParser_parse(supportedSchemes, whitelistedResources[i])
    IN  {parsed(i) : i \in {j \in DOMAIN whitelistedResources :
                               /\ lowerToken(whitelistedResources[j]) # "'none'"
                               /\ ~rejectedSourceExpression(directiveType, parsed(j))}}

\* DirectiveParser.parse; self.strict is the parser's strictness
DirectiveParser_parse(self, stringDirective) ==
    IF stringDirective.tokens = <<>> /\ stringDirective.type = "inline style base restriction"
    THEN INLINE_STYLE_BASE_RESTRICTION
    ELSE IF stringDirective.tokens = <<>> /\ stringDirective.type = "inline script base restriction"
    THEN INLINE_SCRIPT_BASE_RESTRICTION
    ELSE IF stringDirective.tokens = <<>> /\ stringDirective.type = "eval script base restriction"
    THEN EVAL_SCRIPT_BASE_RESTRICTION
    ELSE IF stringDirective.tokens = <<>>
    THEN Directive_INVALID
    ELSE
      LET lowered == lowerDirectiveType(stringDirective.type)
          directiveType == IF lowered \in DOMAIN directiveTypeTranslations
                           THEN directiveTypeTranslations[lowered]
                           ELSE lowered
          whitelistedResources == stringDirective.tokens
          parsed(i) == SourceExpressionParser_parse(supportedSchemes, whitelistedResources[i])
      IN
      IF directiveType = "" \/ directiveType \notin allowedDirectiveTypes
      THEN Directive_INVALID
      ELSE IF /\ \E i \in DOMAIN whitelistedResources :
                    lowerToken(whitelistedResources[i]) = "'none'"
              /\ Len(whitelistedResources) > 1
              /\ self.strict
      THEN Directive_INVALID
      ELSE IF /\ self.strict
              /\ \E i \in DOMAIN whitelistedResources :
                    /\ lowerToken(whitelistedResources[i]) # "'none'"
                    /\ rejectedSourceExpression(directiveType, parsed(i))
      THEN Directive_INVALID
      ELSE Directive(directiveType, validWhitelist(directiveType, whitelistedResources))

\* PolicyParser._isIgnoredDirectiveType: the stripped, lower-cased text
\* starts with an ignored type followed by a space
isIgnoredDirectiveType(ignoredTypes, directiveStr) ==
    /\ directiveStr.tokens # <<>>
    /\ lowerDirectiveType(directiveStr.type) \in ignoredTypes

\* PolicyParser._normaliseDirectivesMap: the map after the call
normaliseDirectivesMap(self, directivesMap) ==
    IF "default-src" \notin DOMAIN directivesMap THEN directivesMap
    ELSE [otherType \in (DOMAIN directivesMap \cup self.defaultSrcTypes) \ {"default-src"} |->
             IF otherType \in DOMAIN directivesMap THEN directivesMap[otherType]
             ELSE Directive(otherType,
                            directivesMap["default-src"].whitelistedSourceExpressions)]

\* the loop of PolicyParser.parse from directiveStrings[i] on, 'directives'
\* being the map built so far: None when the loop returns Policy.INVALID(),
\* else the map at the end of the loop
RECURSIVE parseDirectiveStrings(_, _, _, _)
parseDirectiveStrings(self, directiveStrings, i, directives) ==
    IF i > Len(directiveStrings) THEN Some(directives)
    ELSE IF isIgnoredDirectiveType(ignoredDirectiveTypes, directiveStrings[i])
    THEN parseDirectiveStrings(self, directiveStrings, i + 1, directives)
    ELSE
      LET added(directive) ==
              IF directive = Directive_INVALID
              THEN IF self.strict THEN None
                   ELSE parseDirectiveStrings(self, directiveStrings, i + 1, directives)
              ELSE IF getType(directive) \in DOMAIN directives
              THEN parseDirectiveStrings(self, directiveStrings, i + 1, directives)
              ELSE parseDirectiveStrings(self, directiveStrings, i + 1,
                                         directives @@ (getType(directive) :> directive))
      IN  added(DirectiveParser_parse(self, directiveStrings[i]))

\* PolicyParser.parse: the set of policies the call can return (one policy,
\* the values of the map being of pairwise different types)
PolicyParser_parse(self, stringPolicy) ==
    LET policyOf(directives) ==
            IF DOMAIN directives = {} THEN {Policy_INVALID}
            ELSE Policy({directives[t] : t \in DOMAIN directives})
        returned(looped) ==
            IF looped = None THEN {Policy_INVALID}
            ELSE policyOf(IF self.expandDefaultSrc
                          THEN normaliseDirectivesMap(self, looped[1])
                          ELSE looped[1])
    IN  returned(parseDirectiveStrings(self, stringPolicy, 1, <<>>))

-----------------------------------------------------------------------------
(* The string forms: __str__ of the source expressions, of Directive and   *)
(* of Policy, as the texts the parsers read                                *)

\* the string made of the characters of a host or a path
RECURSIVE joined(_)
joined(chars) == IF chars = <<>> THEN "" ELSE Head(chars) \o joined(Tail(chars))

\* urllib.quote on a path: "/" and the letters are kept, a space is escaped
RECURSIVE quoted(_)
quoted(chars) ==
    IF chars = <<>> THEN ""
    ELSE (IF Head(chars) = " " THEN "%20" ELSE Head(chars)) \o quoted(Tail(chars))

\* str() of a port: "*" or the decimal digits of the number
RECURSIVE decimal(_)
decimal(n) ==
    LET digit(d) == CASE d = 0 -> "0" [] d = 1 -> "1" [] d = 2 -> "2" [] d = 3 -> "3"
                      [] d = 4 -> "4" [] d = 5 -> "5" [] d = 6 -> "6" [] d = 7 -> "7"
                      [] d = 8 -> "8" [] OTHER -> "9"
    IN  IF n = StarPort THEN "*"
        ELSE IF n < 10 THEN digit(n)
        ELSE decimal(n \div 10) \o digit(n % 10)

\* URISourceExpression.__str__
URISourceExpression___str__(self) ==
    IF self.scheme # None /\ self.host = None /\ self.port = None /\ self.path = None
    THEN self.scheme[1] \o ":"
    ELSE (IF self.scheme # None THEN self.scheme[1] \o "://" ELSE "")
         \o (IF self.host # None THEN joined(self.host[1]) ELSE "")
         \o (IF self.port # None THEN ":" \o decimal(self.port[1]) ELSE "")
         \o (IF self.path # None THEN quoted(self.path[1]) ELSE "")

\* SourceExpression.__str__, SelfSourceExpression.__str__ and
\* URISourceExpression.__str__, by the class of the expression
SourceExpression___str__(self) ==
    IF self.type = "uri" THEN URISourceExpression___str__(self)
    ELSE IF self.type = "self" THEN "'self'"
    ELSE IF self.type = "unsafe-inline" THEN "'unsafe-inline'"
    ELSE IF self.type = "unsafe-eval" THEN "'unsafe-eval'"
    ELSE IF self.type = "[invalid]" THEN "[invalid]"
    ELSE "<?>"

\* the place of a printed source expression in the order of str: "'" comes
\* before "*", "*" before the letters, a text before the texts it starts
tokenRank(t) ==
    CASE t = "'self'" -> 1
      [] t = "'unsafe-eval'" -> 2
      [] t = "'unsafe-inline'" -> 3
      [] t = "*" -> 4
      [] t = "a" -> 5
      [] t = "http://a" -> 6
      [] t = "http://a/p" -> 7
      [] t = "ws://a:80" -> 8
      [] OTHER -> 9

\* the place of a printed directive in the order of str, which its type
\* decides
typeRank(s) ==
    CASE s.type = "" -> 0
      [] s.type = "base-uri" -> 1
      [] s.type = "child-src" -> 2
      [] s.type = "connect-src" -> 3
      [] s.type = "default-src" -> 4
      [] s.type = "font-src" -> 5
      [] s.type = "form-action" -> 6
      [] s.type = "frame-ancestors" -> 7
      [] s.type = "frame-src" -> 8
      [] s.type = "img-src" -> 9
      [] s.type = "media-src" -> 10
      [] s.type = "object-src" -> 11
      [] s.type = "script-src" -> 12
      [] s.type = "style-src" -> 13
      [] OTHER -> 14

\* list.sort(): the elements of S in the order of their places in 'rank'
RECURSIVE sorted(_, _)
sorted(S, rank) ==
    IF S = {} THEN <<>>
    ELSE LET first == CHOOSE x \in S : \A y \in S : rank[x] <= rank[y]
         IN  <<first>> \o sorted(S \ {first}, rank)

\* Directive.__str__: the text of the directive
Directive___str__(self) ==
    IF self = Directive_INVALID THEN [type |-> "[invalid]", tokens |-> <<>>]
    ELSE IF self = INLINE_STYLE_BASE_RESTRICTION
    THEN [type |-> "inline style base restriction", tokens |-> <<>>]
    ELSE IF self = INLINE_SCRIPT_BASE_RESTRICTION
    THEN [type |-> "inline script base restriction", tokens |-> <<>>]
    ELSE IF self = EVAL_SCRIPT_BASE_RESTRICTION
    THEN [type |-> "eval script base restriction", tokens |-> <<>>]
    ELSE IF self.whitelistedSourceExpressions = {}
    THEN [type |-> self.directiveType, tokens |-> <<"'none'">>]
    ELSE [type |-> self.directiveType,
          tokens |->
              LET strExpressions == {SourceExpression___str__(x) :
                                        x \in self.whitelistedSourceExpressions}
              IN  sorted(strExpressions, [t \in strExpressions |-> tokenRank(t)])]

\* Policy.__str__: the text of the policy, the printed directives joined by
\* "; ". The policy without directives prints as the empty string, which is
\* the text of one empty segment.
Policy___str__(self) ==
    IF self = Policy_INVALID THEN <<[type |-> "[invalid]", tokens |-> <<>>]>>
    ELSE IF self.directives = {} THEN <<[type |-> "", tokens |-> <<>>]>>
    ELSE LET stringPolicyList == {Directive___str__(x) : x \in self.directives}
         IN  sorted(stringPolicyList, [d \in stringPolicyList |-> typeRank(d)])

-----------------------------------------------------------------------------
(* withoutPaths, asBasicDirectives, asBasicPolicies, Report.generatePolicy *)

\* URISourceExpression.removePath
removePath(self) == URISourceExpression(self.scheme, self.host, self.port, None)

\* URISourceExpression.schemeOnly
schemeOnly(self) ==
    IF self.scheme = None THEN SourceExpression_INVALID
    ELSE URISourceExpression(self.scheme, None, None, None)

\* Directive.withoutPaths leaving the expressions of the schemeOnly schemes
\* as they are
Directive_withoutPaths_schemeOnlyKept(self, schemeOnlyList) ==
    IF ~self.isRegularDirective THEN self
    ELSE
      LET converted(srcExpr_) ==
              IF srcExpr_.type = "uri"
              THEN IF srcExpr_.scheme # None /\ srcExpr_.scheme[1] \in schemeOnlyList
                   THEN srcExpr_
                   ELSE removePath(srcExpr_)
              ELSE srcExpr_
      IN  Directive(self.directiveType,
                    {converted(x) : x \in self.whitelistedSourceExpressions})

\* Directive.withoutPaths
Directive_withoutPaths(self, schemeOnlyList) ==
    IF ~self.isRegularDirective THEN self
    ELSE
      LET converted(srcExpr_) ==
              IF srcExpr_.type = "uri"
              THEN IF srcExpr_.scheme # None /\ srcExpr_.scheme[1] \in schemeOnlyList
                   THEN schemeOnly(srcExpr_)
                   ELSE removePath(srcExpr_)
              ELSE srcExpr_
      IN  Directive(self.directiveType,
                    {converted(x) : x \in self.whitelistedSourceExpressions})

\* Directive.isBasicDirective
Directive_isBasicDirective(self) ==
    IF ~self.isRegularDirective THEN FALSE
    ELSE Cardinality(self.whitelistedSourceExpressions) <= 1

\* Directive.asBasicDirectives returning a regular directive of one
\* expression or none as it is even when it is not the receiver's own
Directive_asBasicDirectives_emptyDropped(self) ==
    IF ~self.isRegularDirective THEN {}
    ELSE {Directive(self.directiveType, {x}) : x \in self.whitelistedSourceExpressions}

\* Directive.asBasicDirectives
Directive_asBasicDirectives(self) ==
    IF ~self.isRegularDirective THEN {}
    ELSE IF Cardinality(self.whitelistedSourceExpressions) <= 1 THEN {self}
    ELSE {Directive(self.directiveType, {x}) : x \in self.whitelistedSourceExpressions}

\* Policy.withoutPaths: the set of policies the call can return
Policy_withoutPaths(self, schemeOnlyList) ==
    IF self = Policy_INVALID THEN {self}
    ELSE Policy({Directive_withoutPaths(x, schemeOnlyList) : x \in self.directives})

\* Policy.asBasicPolicies
Policy_asBasicPolicies(self) ==
    IF self = Policy_INVALID THEN {}
    ELSE IF self.directives = {} THEN {self}
    ELSE UNION {UNION {Policy({bDirect}) : bDirect \in Directive_asBasicDirectives(x)} :
                   x \in self.directives}

\* Policy.isBasicPolicy
Policy_isBasicPolicy(self) ==
    IF self = Policy_INVALID THEN FALSE
    ELSE IF Cardinality(self.directives) # 1 THEN FALSE
    ELSE \A d \in self.directives : Directive_isBasicDirective(d)

\* Policy.compareTo with the policies of 'otherPolicy' returned whole
Policy_compareTo_otherWhole(self, otherPolicy_) ==
    IF self = Policy_INVALID \/ otherPolicy_ = Policy_INVALID
    THEN <<{}, {}, {}>>
    ELSE LET selfBasic == Policy_asBasicPolicies(self)
             otherBasic == Policy_asBasicPolicies(otherPolicy_)
             common == selfBasic \cap otherBasic
         IN  <<common, selfBasic \ common, otherBasic>>

\* Policy.compareTo
Policy_compareTo(self, otherPolicy_) ==
    IF self = Policy_INVALID \/ otherPolicy_ = Policy_INVALID
    THEN <<{}, {}, {}>>
    ELSE LET selfBasic == Policy_asBasicPolicies(self)
             otherBasic == Policy_asBasicPolicies(otherPolicy_)
             common == selfBasic \cap otherBasic
             onlySelf == selfBasic \ common
             onlyOther == otherBasic \ common
         IN  <<common, onlySelf, onlyOther>>

\* Report.INVALID(): the report without any field. A report is the map from
\* its field names to their values.
Report_INVALID == <<>>

\* Report.generatePolicy: the set of policies the call can return
Report_generatePolicy(self, repType) ==
    IF \/ self = Report_INVALID
       \/ "violated-directive" \notin DOMAIN self
       \/ "blocked-uri" \notin DOMAIN self
    THEN {Policy_INVALID}
    ELSE
      LET generated == Directive_generateDirective(self["violated-directive"], repType,
                                                   self["blocked-uri"])
      IN  IF generated = Directive_INVALID THEN {Policy_INVALID}
          ELSE Policy({generated})

\* defaults.uriKeys, directiveKeys, policyKeys, reportKeyNameReplacements,
\* requiredReportKeys
uriKeys == {"blocked-uri", "document-uri", "referrer"}

directiveKeys == {"violated-directive"}

policyKeys == {"original-policy"}

reportKeyNameReplacements == ("document-url" :> "document-uri")

requiredReportKeys == {"blocked-uri", "violated-directive", "document-uri"}

\* str.lower() on the key names used in reports
lowerKey(k) ==
    CASE k = "Referrer" -> "referrer"
      [] OTHER -> k

\* URIParser.parse as ReportParser configures it (no scheme and no port
\* added), on the URI strings used in reports
URIParser_parse(uriString) ==
    CASE uriString = "" -> URI_EMPTY
      [] uriString = "http://a" -> URI(Some("http"), Some(<<"a">>), None, None, None)
      [] uriString = "http://b.a/a" ->
             URI(Some("http"), Some(<<"b", ".", "a">>), None, Some(<<"/", "a">>), None)
      [] uriString = "http://a b" -> URI_INVALID
      [] OTHER -> URI_INVALID

\* ReportParser._replaceName
ReportParser_replaceName(self, oldName) ==
    IF lowerKey(oldName) \in DOMAIN self.keyNameReplacements
    THEN self.keyNameReplacements[lowerKey(oldName)]
    ELSE lowerKey(oldName)

\* the dictionaries dict(map(...)) can build out of 'jsonReport' at
\* report.py 267: of two keys with one new name, the one iterated last stays
renamedReports(self, jsonReport) ==
    LET newNames == {ReportParser_replaceName(self, k) : k \in DOMAIN jsonReport}
        kept == {S \in SUBSET DOMAIN jsonReport :
                    \A n \in newNames :
                        Cardinality({k \in S : ReportParser_replaceName(self, k) = n}) = 1}
    IN  {[n \in newNames |->
             jsonReport[CHOOSE k \in S : ReportParser_replaceName(self, k) = n]] :
            S \in kept}

\* the keys whose URI is exactly 'self'
deferredSelfURIs(self, renamedReport) ==
    {k \in DOMAIN renamedReport : k \in self.uriKeys /\ renamedReport[k] = "self"}

\* what the child parser of 'key' can return for 'value', the value itself
\* for a key that is not configured
parsedValues(self, key, value) ==
    IF key \in self.uriKeys THEN {URIParser_parse(value)}
    ELSE IF key \in self.directiveKeys
    THEN {DirectiveParser_parse([strict |-> self.strict], value)}
    ELSE IF key \in self.policyKeys
    THEN PolicyParser_parse([strict |-> self.strict, expandDefaultSrc |-> FALSE,
                             defaultSrcTypes |-> defaultSrcReplacementDirectiveTypes],
                            value)
    ELSE {value}

\* value in (URI.INVALID(), Directive.INVALID(), Policy.INVALID())
isInvalidValue(self, key, value) ==
    \/ key \in self.uriKeys /\ value = URI_INVALID
    \/ key \in self.directiveKeys /\ value = Directive_INVALID
    \/ key \in self.policyKeys /\ value = Policy_INVALID

\* the maps from the keys in 'keys' to a parsed value each
RECURSIVE parsedReports(_, _, _)
parsedReports(self, renamedReport, keys) ==
    IF keys = {} THEN {<<>>}
    ELSE LET key == CHOOSE k \in keys : TRUE
         IN  {(key :> v) @@ rest :
                 v \in parsedValues(self, key, renamedReport[key]),
                 rest \in parsedReports(self, renamedReport, keys \ {key})}

\* report.py 283-298 with every invalid value kept in the report
finishedReport_invalidKept(self, parsed, deferred) ==
    LET invalid == {k \in DOMAIN parsed : isInvalidValue(self, k, parsed[k])}
        copied == {k \in deferred :
                      "document-uri" \in self.uriKeys /\ "document-uri" \in DOMAIN parsed}
        convertedReport == [k \in DOMAIN parsed \cup copied |->
                               IF k \in copied THEN parsed["document-uri"]
                               ELSE parsed[k]]
    IN  IF self.strict /\ invalid # {} THEN Report_INVALID
        ELSE IF self.strict /\ copied # deferred THEN Report_INVALID
        ELSE IF \E requiredKey \in self.requiredKeys :
                    requiredKey \notin DOMAIN convertedReport
        THEN Report_INVALID
        ELSE convertedReport

\* report.py 283-298 with the strict mode keeping an invalid value instead
\* of returning Report.INVALID()
finishedReport_strictKeeps(self, parsed, deferred) ==
    LET invalid == {k \in DOMAIN parsed : isInvalidValue(self, k, parsed[k])}
        valid == IF self.strict THEN DOMAIN parsed ELSE DOMAIN parsed \ invalid
        copied == {k \in deferred :
                      "document-uri" \in self.uriKeys /\ "document-uri" \in valid}
        convertedReport == [k \in valid \cup copied |->
                               IF k \in copied THEN parsed["document-uri"]
                               ELSE parsed[k]]
    IN  IF self.strict /\ copied # deferred THEN Report_INVALID
        ELSE IF \E requiredKey \in self.requiredKeys :
                    requiredKey \notin DOMAIN convertedReport
        THEN Report_INVALID
        ELSE convertedReport

\* report.py 272-298: the report made of the parsed values, the values of
\* the deferred keys and the required keys
finishedReport(self, parsed, deferred) ==
    LET invalid == {k \in DOMAIN parsed : isInvalidValue(self, k, parsed[k])}
        valid == DOMAIN parsed \ invalid
        copied == {k \in deferred :
                      "document-uri" \in self.uriKeys /\ "document-uri" \in valid}
        convertedReport == [k \in valid \cup copied |->
                               IF k \in copied THEN parsed["document-uri"]
                               ELSE parsed[k]]
    IN  IF self.strict /\ invalid # {} THEN Report_INVALID
        ELSE IF self.strict /\ copied # deferred THEN Report_INVALID
        ELSE IF \E requiredKey \in self.requiredKeys :
                    requiredKey \notin DOMAIN convertedReport
        THEN Report_INVALID
        ELSE convertedReport

\* report.py 269-298: the set of reports the call can return once the keys
\* are renamed
parseRenamedReport(self, renamedReport) ==
    {finishedReport(self, parsed, deferredSelfURIs(self, renamedReport)) :
        parsed \in parsedReports(self, renamedReport,
                                 DOMAIN renamedReport
                                     \ deferredSelfURIs(self, renamedReport))}

\* ReportParser.parseJsonDict: the set of reports the call can return
ReportParser_parseJsonDict(self, jsonReport) ==
    UNION {parseRenamedReport(self, renamedReport) :
              renamedReport \in renamedReports(self, jsonReport)}

-----------------------------------------------------------------------------
(* The calls: each behaviour is one call of one method on inputs drawn from *)
(* the sets below. pc is <<"call", m>> before method m runs and            *)
(* <<"return", m>> after it.                                               *)

Call(m) == <<"call", m>>

Return(m) == <<"return", m>>

hostA == <<"a">>

hostUpperA == <<"A">>

hostBA == <<"b", ".", "a">>

pathA == <<"/", "a">>

\* the regular URIs the matching calls are run on
RegularURIs ==
    {URI(s, h, p, pa, None) :
        s \in {None, Some("http"), Some("HTTP"), Some("https"), Some("ws"), Some("ftp")},
        h \in {None, Some(hostA), Some(hostUpperA), Some(hostBA)},
        p \in {None, Some(80), Some(443)},
        pa \in {None, Some(pathA)}}

SentinelURIs == {URI_INVALID, URI_EMPTY, URI_INLINE, URI_EVAL}

URIs == RegularURIs \cup SentinelURIs

URISourceExpressions ==
    {URISourceExpression(s, h, p, pa) :
        s \in {None, Some("http"), Some("ws"), Some("ftp")},
        h \in {None, Some(<<"*">>), Some(hostA), Some(<<"*", ".", "a">>)},
        p \in {None, Some(80), Some(443), Some(StarPort)},
        pa \in {None, Some(pathA)}}

KeywordSourceExpressions == {UNSAFE_INLINE, UNSAFE_EVAL, SourceExpression_INVALID}

\* protected documents: for 'self' every regular URI without a path, for
\* the other expressions one host and every scheme
DocumentURIs(expr) ==
    IF expr.type = "self"
    THEN {u \in RegularURIs : u.path = None}
    ELSE {u \in RegularURIs : u.host = Some(hostA) /\ u.port = None /\ u.path = None}

seStar == URISourceExpression(None, Some(<<"*">>), None, None)

seHttpA == URISourceExpression(Some("http"), Some(hostA), None, None)

seWsA80 == URISourceExpression(Some("ws"), Some(hostA), Some(80), None)

Whitelists ==
    {{}, {SELF}, {seHttpA, UNSAFE_INLINE}, {seStar, UNSAFE_EVAL}, {seWsA80, seStar}}

PolicyTypes == {"script-src", "default-src", "form-action"}

SentinelDirectives ==
    {Directive_INVALID, INLINE_STYLE_BASE_RESTRICTION,
     INLINE_SCRIPT_BASE_RESTRICTION, EVAL_SCRIPT_BASE_RESTRICTION}

Directives ==
    {Directive(t, w) : t \in PolicyTypes, w \in Whitelists} \cup SentinelDirectives

Policies ==
    {Policy_INVALID} \cup
    UNION {UNION {Policy({Directive(t, f[t]) : t \in T}) : f \in [T -> Whitelists]} :
              T \in SUBSET PolicyTypes}

ResourceTypes ==
    {"script-src", "SCRIPT-SRC", "img-src", "form-action", "default-src",
     "frame-ancestors"}

\* URIs and protected documents of the Directive and Policy calls
SomeURIs ==
    SentinelURIs \cup
    {URI(Some("http"), Some(hostA), None, None, None),
     URI(Some("https"), Some(hostA), Some(443), Some(pathA), None),
     URI(Some("http"), Some(hostBA), Some(80), None, None),
     URI(None, Some(hostA), None, None, None),
     URI(Some("ws"), Some(hostA), None, None, None)}

SomeDocumentURIs ==
    {URI(Some("http"), Some(hostA), None, None, None),
     URI(Some("https"), Some(hostA), None, None, None),
     URI(Some("ws"), Some(hostA), Some(80), None, None),
     URI(None, Some(hostA), None, None, None)}

\* the variables a call does not use
Unused(v) == v = None

NoOtherArguments ==
    Unused(reportType) /\ Unused(text) /\ Unused(parser) /\ Unused(matched)
        /\ Unused(inputDirectives) /\ Unused(schemeOnlyArg) /\ Unused(reports)
        /\ Unused(cache) /\ Unused(heap) /\ Unused(threads)

InitSourceExpression ==
    /\ srcExpr \in URISourceExpressions \cup KeywordSourceExpressions \cup {SELF}
    /\ resourceURI \in URIs
    /\ protectedDocumentURI \in DocumentURIs(srcExpr)
    /\ pc = Call(IF srcExpr.type = "uri" THEN "URISourceExpression.matches"
                 ELSE IF srcExpr.type = "self" THEN "SelfSourceExpression.matches"
                 ELSE "SourceExpression.matches")
    /\ Unused(direct) /\ Unused(otherDirective) /\ Unused(policy)
    /\ Unused(otherPolicy) /\ Unused(resourceType) /\ Unused(result) /\ NoOtherArguments

InitDirective ==
    /\ direct \in Directives
    /\ resourceURI \in SomeURIs
    /\ protectedDocumentURI \in SomeDocumentURIs
    /\ pc = Call("Directive.matches")
    /\ Unused(srcExpr) /\ Unused(otherDirective) /\ Unused(policy)
    /\ Unused(otherPolicy) /\ Unused(resourceType) /\ Unused(result) /\ NoOtherArguments

InitPolicy ==
    /\ policy \in Policies
    /\ resourceURI \in SomeURIs
    /\ resourceType \in ResourceTypes
    /\ protectedDocumentURI \in SomeDocumentURIs
    /\ pc = Call("Policy.matches")
    /\ Unused(srcExpr) /\ Unused(direct) /\ Unused(otherDirective)
    /\ Unused(otherPolicy) /\ Unused(result) /\ NoOtherArguments

Init == InitSourceExpression \/ InitDirective \/ InitPolicy

\* a call returns: only pc and result change
Returns(m, outcome) ==
    /\ pc = Call(m)
    /\ pc' = Return(m)
    /\ result' = outcome
    /\ UNCHANGED <<srcExpr, direct, otherDirective, policy, otherPolicy,
                   resourceURI, resourceType, protectedDocumentURI,
                   reportType, text, parser, matched, inputDirectives,
                   schemeOnlyArg, reports, cache, heap, threads>>

CallSourceExpression_matches ==
    /\ pc = Call("SourceExpression.matches")
    /\ Returns("SourceExpression.matches",
               SourceExpression_matches(srcExpr, resourceURI, protectedDocumentURI,
                                        schemePortMappings))

CallSelfSourceExpression_matches ==
    /\ pc = Call("SelfSourceExpression.matches")
    /\ Returns("SelfSourceExpression.matches",
               SelfSourceExpression_matches(srcExpr, resourceURI, protectedDocumentURI,
                                            schemePortMappings))

CallURISourceExpression_matches ==
    /\ pc = Call("URISourceExpression.matches")
    /\ Returns("URISourceExpression.matches",
               URISourceExpression_matches(srcExpr, resourceURI, protectedDocumentURI,
                                           schemePortMappings))

CallDirective_matches ==
    /\ pc = Call("Directive.matches")
    /\ \E outcome \in Directive_matches(direct, resourceURI, protectedDocumentURI,
                                        schemePortMappings) :
          Returns("Directive.matches", outcome)

CallPolicy_matches ==
    /\ pc = Call("Policy.matches")
    /\ \E outcome \in Policy_matches(policy, resourceURI, resourceType,
                                     protectedDocumentURI, schemePortMappings,
                                     defaultSrcReplacementDirectiveTypes) :
          Returns("Policy.matches", outcome)

Next ==
    \/ CallSourceExpression_matches
    \/ CallSelfSourceExpression_matches
    \/ CallURISourceExpression_matches
    \/ CallDirective_matches
    \/ CallPolicy_matches

Spec == Init /\ [][Next]_vars

-----------------------------------------------------------------------------
(* URISourceExpression.matches on hosts and on paths written out as texts *)

MaxHostLen == 3

MaxPathLen == 3

\* the texts of at most n characters over 'chars'
RECURSIVE Texts(_, _)
Texts(chars, n) ==
    IF n = 0 THEN {<<>>}
    ELSE LET shorter == Texts(chars, n - 1)
         IN  shorter \cup {Append(t, c) : t \in shorter, c \in chars}

HostChars == {"a", "B", "."}

HostTexts == Texts(HostChars, MaxHostLen) \ {<<>>}

\* expressions with a literal host, with '*' and with '*' before a text
HostExpressions ==
    {URISourceExpression(Some("http"), Some(h), None, None) :
        h \in HostTexts \cup {<<"*">>} \cup {<<"*">> \o t : t \in HostTexts}}

HostURIs ==
    {URI(Some("http"), h, p, None, None) :
        h \in {None} \cup {Some(t) : t \in HostTexts}, p \in {None, Some(80), Some(443)}}

InitHost ==
    /\ srcExpr \in HostExpressions
    /\ resourceURI \in HostURIs
    /\ protectedDocumentURI = URI(Some("http"), Some(hostA), None, None, None)
    /\ pc = Call("URISourceExpression.matches")
    /\ Unused(direct) /\ Unused(otherDirective) /\ Unused(policy)
    /\ Unused(otherPolicy) /\ Unused(resourceType) /\ Unused(result) /\ NoOtherArguments

NextHost == CallURISourceExpression_matches

SpecHost == InitHost /\ [][NextHost]_vars

PathChars == {"/", "a", "b"}

PathTexts == Texts(PathChars, MaxPathLen)

PathExpressions ==
    {URISourceExpression(Some("http"), Some(hostA), p, pa) :
        p \in {None, Some(StarPort)}, pa \in {None} \cup {Some(t) : t \in PathTexts}}

PathURIs ==
    {URI(Some("http"), Some(hostA), p, pa, q) :
        p \in {None, Some(443)},
        pa \in {None} \cup {Some(t) : t \in PathTexts},
        q \in {None, Some(<<"q">>)}}

InitPath ==
    /\ srcExpr \in PathExpressions
    /\ resourceURI \in PathURIs
    /\ protectedDocumentURI = URI(Some("http"), Some(hostA), None, None, None)
    /\ pc = Call("URISourceExpression.matches")
    /\ Unused(direct) /\ Unused(otherDirective) /\ Unused(policy)
    /\ Unused(otherPolicy) /\ Unused(resourceType) /\ Unused(result) /\ NoOtherArguments

NextPath == CallURISourceExpression_matches

SpecPath == InitPath /\ [][NextPath]_vars

-----------------------------------------------------------------------------
(* The calls of combinedDirective and combinedPolicy *)

InitCombinedDirective ==
    /\ direct \in Directives
    /\ otherDirective \in Directives
    /\ pc = Call("Directive.combinedDirective")
    /\ Unused(srcExpr) /\ Unused(policy) /\ Unused(otherPolicy)
    /\ Unused(resourceURI) /\ Unused(resourceType)
    /\ Unused(protectedDocumentURI) /\ Unused(result) /\ NoOtherArguments

InitCombinedPolicy ==
    /\ policy \in Policies
    /\ otherPolicy \in Policies
    /\ pc = Call("Policy.combinedPolicy")
    /\ Unused(srcExpr) /\ Unused(direct) /\ Unused(otherDirective)
    /\ Unused(resourceURI) /\ Unused(resourceType)
    /\ Unused(protectedDocumentURI) /\ Unused(result) /\ NoOtherArguments

InitCombine == InitCombinedDirective \/ InitCombinedPolicy

CallDirective_combinedDirective ==
    /\ pc = Call("Directive.combinedDirective")
    /\ Returns("Directive.combinedDirective",
               Directive_combinedDirective(direct, otherDirective))

CallPolicy_combinedPolicy ==
    /\ pc = Call("Policy.combinedPolicy")
    /\ \E combined \in Policy_combinedPolicy(policy, otherPolicy) :
          Returns("Policy.combinedPolicy", combined)

NextCombine ==
    \/ CallDirective_combinedDirective
    \/ CallPolicy_combinedPolicy

SpecCombine == InitCombine /\ [][NextCombine]_vars

-----------------------------------------------------------------------------
(* Vocabulary of the claims: the matching rules as the specification words *)
(* them, on the arguments of the call that has run.                        *)

EndsWith(s, suffix) == \E k \in 0..Len(s) : SubSeq(s, k + 1, Len(s)) = suffix

StartsWith(s, prefix) == \E k \in 0..Len(s) : SubSeq(s, 1, k) = prefix

\* two optional scheme names are both present and equal up to case
SameScheme(a, b) ==
    a # None /\ b # None /\ lowerScheme(a[1]) = lowerScheme(b[1])

SchemeIs(a, names) == a # None /\ lowerScheme(a[1]) \in names

HasDefaultPort(scheme) ==
    scheme # None /\ lowerScheme(scheme[1]) \in DOMAIN schemePortMappings

\* the default port of a scheme, None when the table has none for it
DefaultPort(scheme) ==
    IF HasDefaultPort(scheme) THEN schemePortMappings[lowerScheme(scheme[1])] ELSE None

\* the explicit port of a URI or else the default port of its scheme
ResolvedPort(uri) == IF uri.port # None THEN uri.port ELSE DefaultPort(uri.scheme)

IsBareStar(expr) ==
    expr.scheme = None /\ expr.host = Some(<<"*">>) /\ expr.port = None /\ expr.path = None

IsSchemeOnly(expr) ==
    expr.scheme # None /\ expr.host = None /\ expr.port = None /\ expr.path = None

IsWildcardHost(h) == Len(h) > 1 /\ h[1] = "*"

\* URISourceExpression.matches has run in its general case: a regular URI
\* with a host, an expression that is neither '*' nor scheme-only, and a
\* protected document that has a scheme
GeneralCase ==
    /\ pc = Return("URISourceExpression.matches")
    /\ resourceURI.isRegularURI
    /\ resourceURI.host # None
    /\ ~IsBareStar(srcExpr)
    /\ ~IsSchemeOnly(srcExpr)
    /\ protectedDocumentURI.scheme # None

SchemeMatches ==
    IF srcExpr.scheme # None THEN SameScheme(srcExpr.scheme, resourceURI.scheme)
    ELSE IF SchemeIs(protectedDocumentURI.scheme, {"http"})
    THEN SchemeIs(resourceURI.scheme, {"http", "https"})
    ELSE SameScheme(protectedDocumentURI.scheme, resourceURI.scheme)

\* the host rule as the code has it: a suffix test for '*.suffix'
HostMatches ==
    \/ srcExpr.host = None
    \/ srcExpr.host = Some(<<"*">>)
    \/ /\ IsWildcardHost(srcExpr.host[1])
       /\ EndsWith(lowerText(resourceURI.host[1]), Tail(srcExpr.host[1]))
    \/ srcExpr.host[1] = lowerText(resourceURI.host[1])

\* the port rule as the code has it when it returns: no test for a scheme
\* without an entry in the table
PortMatches ==
    \/ srcExpr.port = Some(StarPort)
    \/ /\ srcExpr.port = None
       /\ HasDefaultPort(resourceURI.scheme) =>
             ResolvedPort(resourceURI) = DefaultPort(resourceURI.scheme)
    \/ /\ srcExpr.port # None
       /\ ResolvedPort(resourceURI) = srcExpr.port

\* the path of the resource URI, '/' when it has none
PathOrSlash(uri) == IF uri.path = None THEN <<"/">> ELSE uri.path[1]

PathMatches ==
    \/ srcExpr.path = None
    \/ /\ EndsWith(srcExpr.path[1], <<"/">>)
       /\ StartsWith(PathOrSlash(resourceURI), srcExpr.path[1])
    \/ /\ ~EndsWith(srcExpr.path[1], <<"/">>)
       /\ srcExpr.path[1] = PathOrSlash(resourceURI)

-----------------------------------------------------------------------------
(* Claims on matching *)

DirectivesOfType(pol, t) == {d \in pol.directives : getType(d) = t}

\* what the directives in ds can answer for the arguments of the call
Delegated(ds) ==
    UNION {Directive_matches(d, resourceURI, protectedDocumentURI, schemePortMappings) :
              d \in ds}

C1_Reference ==
    LET t == lowerType(resourceType)
    IN  IF policy = Policy_INVALID THEN {"False"}
        ELSE IF DirectivesOfType(policy, t) # {}
        THEN Delegated(DirectivesOfType(policy, t))
        ELSE IF t \notin defaultSrcReplacementDirectiveTypes THEN {"False"}
        ELSE IF DirectivesOfType(policy, "default-src") # {}
        THEN Delegated(DirectivesOfType(policy, "default-src"))
        ELSE {Bool(resourceURI.isRegularURI)}

\* C1: Policy.matches is False for Policy.INVALID; else the answer of the
\* policy's directive of the resource type (types compared in lower case)
\* when it has one; else False for a type outside defaultSrcTypes; else the
\* answer of the default-src directive when it has one; else True exactly
\* for the regular URIs.
C1_PolicyMatches ==
    pc = Return("Policy.matches") => result \in C1_Reference

\* the directive of the resource type refuses a load default-src would allow
C1_Witness ==
    /\ pc = Return("Policy.matches")
    /\ policy # Policy_INVALID
    /\ DirectivesOfType(policy, lowerType(resourceType)) # {}
    /\ resourceType # "default-src"
    /\ "True" \in Delegated(DirectivesOfType(policy, "default-src"))
    /\ result = "False"

\* the port rule as C3 words it
C3_ClaimedPortMatches ==
    \/ srcExpr.port = Some(StarPort)
    \/ /\ srcExpr.port = None
       /\ ResolvedPort(resourceURI) = DefaultPort(resourceURI.scheme)
    \/ /\ srcExpr.port # None
       /\ ResolvedPort(resourceURI) = srcExpr.port

\* C3: in the general case with scheme, host and path matching, an
\* expression without a port matches iff the resolved port of the resource
\* URI is the default port of its scheme, one with a numeric port iff that
\* port is the resolved port, and one with port '*' always.
C3_PortRule ==
    (GeneralCase /\ SchemeMatches /\ HostMatches /\ PathMatches)
        => result = Bool(C3_ClaimedPortMatches)

\* the scheme rule as C5 words it
C5_ClaimedSchemeMatches ==
    IF srcExpr.scheme # None THEN SameScheme(srcExpr.scheme, resourceURI.scheme)
    ELSE IF SchemeIs(protectedDocumentURI.scheme, {"http"})
    THEN SchemeIs(resourceURI.scheme, {"http", "https"})
    ELSE SameScheme(protectedDocumentURI.scheme, resourceURI.scheme)

\* C5: an expression with a scheme matches only URIs of that scheme; one
\* without a scheme matches only http and https URIs for an http document
\* and only URIs of the document's scheme otherwise (schemes compared in
\* lower case); but '*' matches every regular URI and a scheme-only
\* expression every regular URI of its scheme.
C5_SchemeRule ==
    pc = Return("URISourceExpression.matches") =>
        /\ IsBareStar(srcExpr) => result = Bool(resourceURI.isRegularURI)
        /\ IsSchemeOnly(srcExpr) =>
              result = Bool(/\ resourceURI.isRegularURI
                            /\ SameScheme(srcExpr.scheme, resourceURI.scheme))
        /\ (~IsBareStar(srcExpr) /\ result = "True") => C5_ClaimedSchemeMatches

\* an expression without a scheme lets an https URI into an http document
C5_Witness ==
    /\ GeneralCase
    /\ srcExpr.scheme = None
    /\ SchemeIs(protectedDocumentURI.scheme, {"http"})
    /\ SchemeIs(resourceURI.scheme, {"https"})
    /\ result = "True"

SameHost(a, b) ==
    \/ a = None /\ b = None
    \/ a # None /\ b # None /\ lowerText(a[1]) = lowerText(b[1])

\* C6: 'self' matches iff the resource URI is regular, both URIs have a
\* scheme and a resolvable port, and scheme, host and resolved port are
\* equal, scheme and host up to case.
C6_SelfRule ==
    pc = Return("SelfSourceExpression.matches") =>
        result = Bool(/\ resourceURI.isRegularURI
                      /\ resourceURI.scheme # None
                      /\ protectedDocumentURI.scheme # None
                      /\ ResolvedPort(resourceURI) # None
                      /\ ResolvedPort(protectedDocumentURI) # None
                      /\ SameScheme(resourceURI.scheme, protectedDocumentURI.scheme)
                      /\ SameHost(resourceURI.host, protectedDocumentURI.host)
                      /\ ResolvedPort(resourceURI) = ResolvedPort(protectedDocumentURI))

ExpressionMatchHasRun ==
    pc \in {Return("SourceExpression.matches"),
            Return("SelfSourceExpression.matches"),
            Return("URISourceExpression.matches")}

\* C7: URI.EVAL is matched by 'unsafe-eval' alone and URI.INLINE by
\* 'unsafe-inline' alone; the two keywords match nothing else; URI.EMPTY,
\* URI.INVALID are matched by no expression and SourceExpression.INVALID
\* matches nothing; a directive that is not regular or has an empty
\* whitelist, and Policy.INVALID, match nothing.
C7_SentinelTargets ==
    /\ ExpressionMatchHasRun =>
          /\ resourceURI = URI_EVAL => result = Bool(srcExpr = UNSAFE_EVAL)
          /\ resourceURI = URI_INLINE => result = Bool(srcExpr = UNSAFE_INLINE)
          /\ srcExpr = UNSAFE_EVAL => result = Bool(resourceURI = URI_EVAL)
          /\ srcExpr = UNSAFE_INLINE => result = Bool(resourceURI = URI_INLINE)
          /\ resourceURI \in {URI_EMPTY, URI_INVALID} => result = "False"
          /\ srcExpr = SourceExpression_INVALID => result = "False"
    /\ (/\ pc = Return("Directive.matches")
        /\ (~direct.isRegularDirective \/ direct.whitelistedSourceExpressions = {}))
          => result = "False"
    /\ (pc = Return("Policy.matches") /\ policy = Policy_INVALID)
          => result = "False"

\* 'unsafe-eval' has been asked about URI.EVAL
C7_Witness ==
    /\ pc = Return("SourceExpression.matches")
    /\ srcExpr = UNSAFE_EVAL
    /\ resourceURI = URI_EVAL
    /\ result = "True"

-----------------------------------------------------------------------------
(* Claims on the host and the path rule *)

\* the host rule as C2 words it, for a URI host u in lower case
C2_ClaimedHostMatches(h, u) ==
    IF h = <<"*">> THEN TRUE
    ELSE IF StartsWith(h, <<"*", ".">>)
    THEN Len(u) > Len(h) - 1 /\ EndsWith(u, Tail(h))
    ELSE h = u

\* C2: in the general case with scheme, port and path matching, an
\* expression host '*.suffix' matches iff the URI host in lower case ends
\* with '.suffix' and has at least one character before it, a literal host
\* iff it is the URI host in lower case, and '*' always.
C2_HostRule ==
    (/\ GeneralCase /\ SchemeMatches /\ PortMatches /\ PathMatches
     /\ srcExpr.host # None
     /\ Head(srcExpr.host[1]) = "*" =>
           (srcExpr.host[1] = <<"*">> \/ StartsWith(srcExpr.host[1], <<"*", ".">>)))
      => result = Bool(C2_ClaimedHostMatches(srcExpr.host[1],
                                             lowerText(resourceURI.host[1])))

\* C4: in the general case with scheme, host and port matching, the
\* expression matches iff it has no path, or its path ends in '/' and is a
\* prefix of the path of the resource URI, or its path does not end in '/'
\* and is the path of the resource URI, where a resource URI without a path
\* has the path '/'; and the outcome is the one for the same URI without
\* its query.
C4_PathRule ==
    /\ (GeneralCase /\ SchemeMatches /\ HostMatches /\ PortMatches)
          => result = Bool(PathMatches)
    /\ pc = Return("URISourceExpression.matches")
          => result = URISourceExpression_matches(
                          srcExpr, [resourceURI EXCEPT !.query = None],
                          protectedDocumentURI, schemePortMappings)

\* a path ending in '/' has matched a longer path of a URI with a query
C4_Witness ==
    /\ GeneralCase
    /\ srcExpr.path # None
    /\ EndsWith(srcExpr.path[1], <<"/">>)
    /\ Len(PathOrSlash(resourceURI)) > Len(srcExpr.path[1])
    /\ resourceURI.query # None
    /\ result = "True"

-----------------------------------------------------------------------------
(* Claims on combinedPolicy and combinedDirective *)

TypesOf(pol) == {getType(d) : d \in pol.directives}

\* the sources a policy whitelists for a directive type
WhitelistOf(pol, t) ==
    UNION {d.whitelistedSourceExpressions : d \in DirectivesOfType(pol, t)}

OnlyDefaultSrcOrEmpty(pol) == TypesOf(pol) \in {{}, {"default-src"}}

C8_ClaimedInvalid ==
    \/ policy = Policy_INVALID
    \/ otherPolicy = Policy_INVALID
    \/ /\ "default-src" \in TypesOf(policy) \cup TypesOf(otherPolicy)
       /\ ~(OnlyDefaultSrcOrEmpty(policy) /\ OnlyDefaultSrcOrEmpty(otherPolicy))

\* C8: p.combinedPolicy(q) is Policy.INVALID exactly when p or q is, or
\* when 'default-src' occurs in p or q and one of them is neither empty nor
\* the single directive 'default-src'; otherwise it has exactly one
\* directive for each type of p or q, whitelisting the union of what p and
\* q whitelist for that type.
C8_CombinedPolicy ==
    pc = Return("Policy.combinedPolicy") =>
        IF C8_ClaimedInvalid THEN result = Policy_INVALID
        ELSE /\ result # Policy_INVALID
             /\ TypesOf(result) = TypesOf(policy) \cup TypesOf(otherPolicy)
             /\ \A t \in TypesOf(result) :
                   /\ Cardinality(DirectivesOfType(result, t)) = 1
                   /\ WhitelistOf(result, t) =
                         WhitelistOf(policy, t) \cup WhitelistOf(otherPolicy, t)
             /\ \A d \in result.directives : d.isRegularDirective

\* two policies whitelist different sources for a type they share and one
\* of them has a type that the other lacks
C8_Witness ==
    /\ pc = Return("Policy.combinedPolicy")
    /\ result # Policy_INVALID
    /\ \E t \in TypesOf(policy) \cap TypesOf(otherPolicy) :
          /\ WhitelistOf(policy, t) \ WhitelistOf(otherPolicy, t) # {}
          /\ WhitelistOf(otherPolicy, t) \ WhitelistOf(policy, t) # {}
    /\ TypesOf(otherPolicy) \ TypesOf(policy) # {}

\* C9: p.combinedPolicy(q) == q.combinedPolicy(p) for all policies and
\* d.combinedDirective(e) == e.combinedDirective(d) for all directives.
C9_Commutative ==
    /\ pc = Return("Policy.combinedPolicy")
          => Policy_combinedPolicy(otherPolicy, policy) = {result}
    /\ pc = Return("Directive.combinedDirective")
          => Directive_combinedDirective(otherDirective, direct) = result

\* a default-src policy has been combined with a policy of another type
C9_Witness ==
    /\ pc = Return("Policy.combinedPolicy")
    /\ TypesOf(policy) = {"default-src"}
    /\ TypesOf(otherPolicy) = {"script-src"}
    /\ result = Policy_INVALID

\* C10 as stated: p.combinedPolicy(p) == p for every policy p other than
\* Policy.INVALID, whatever its directive types.
C10_Idempotent ==
    (pc = Return("Policy.combinedPolicy") /\ otherPolicy = policy
        /\ policy # Policy_INVALID)
      => result = policy

\* C10: for a policy p other than Policy.INVALID, p.combinedPolicy(p) == p
\* when p has no default-src or nothing but default-src, and
\* p.combinedPolicy(p) is Policy.INVALID when p has default-src next to
\* other directive types.
C10_IdempotentAmended ==
    (pc = Return("Policy.combinedPolicy") /\ otherPolicy = policy
        /\ policy # Policy_INVALID)
      => IF "default-src" \in TypesOf(policy) /\ Cardinality(TypesOf(policy)) > 1
         THEN result = Policy_INVALID
         ELSE result = policy

\* a policy of nothing but default-src has been combined with itself
C10_Witness ==
    /\ pc = Return("Policy.combinedPolicy")
    /\ otherPolicy = policy
    /\ TypesOf(policy) = {"default-src"}
    /\ WhitelistOf(policy, "default-src") # {}
    /\ result = policy

-----------------------------------------------------------------------------
(* Matching before and after a combination *)

Matched(m) == <<"matched", m>>

PermissiveWhitelists == {{}, {SELF}, {seStar, UNSAFE_EVAL}}

PermissivePolicies ==
    {pol \in Policies :
        \A d \in pol.directives : d.whitelistedSourceExpressions \in PermissiveWhitelists}

PermissiveURIs ==
    {URI_EVAL,
     URI(Some("http"), Some(hostA), None, None, None),
     URI(Some("http"), Some(hostBA), Some(80), None, None),
     URI(Some("ws"), Some(hostA), None, None, None)}

PermissiveDocumentURIs ==
    {URI(Some("http"), Some(hostA), None, None, None),
     URI(Some("ws"), Some(hostA), Some(80), None, None)}

InitPermissivePolicy ==
    /\ policy \in PermissivePolicies
    /\ otherPolicy \in PermissivePolicies
    /\ resourceURI \in PermissiveURIs
    /\ resourceType \in {"script-src", "img-src", "form-action"}
    /\ protectedDocumentURI \in PermissiveDocumentURIs
    /\ pc = Call("Policy.combinedPolicy")
    /\ Unused(srcExpr) /\ Unused(direct) /\ Unused(otherDirective)
    /\ Unused(result) /\ NoOtherArguments

InitPermissiveDirective ==
    /\ direct \in Directives
    /\ otherDirective \in Directives
    /\ resourceURI \in SomeURIs
    /\ protectedDocumentURI \in SomeDocumentURIs
    /\ pc = Call("Directive.combinedDirective")
    /\ Unused(srcExpr) /\ Unused(policy) /\ Unused(otherPolicy)
    /\ Unused(resourceType) /\ Unused(result) /\ NoOtherArguments

InitPermissive == InitPermissivePolicy \/ InitPermissiveDirective

\* p.matches(...) and p.combinedPolicy(q).matches(...) on the same arguments
MatchPolicyAndCombinedPolicy ==
    /\ pc = Return("Policy.combinedPolicy")
    /\ result # Policy_INVALID
    /\ \E before \in Policy_matches(policy, resourceURI, resourceType,
                                    protectedDocumentURI, schemePortMappings,
                                    defaultSrcReplacementDirectiveTypes),
          after \in Policy_matches(result, resourceURI, resourceType,
                                   protectedDocumentURI, schemePortMappings,
                                   defaultSrcReplacementDirectiveTypes) :
          matched' = <<before, after>>
    /\ pc' = Matched("Policy.combinedPolicy")
    /\ UNCHANGED <<srcExpr, direct, otherDirective, policy, otherPolicy,
                   resourceURI, resourceType, protectedDocumentURI, result,
                   reportType, text, parser, inputDirectives,
                   schemeOnlyArg, reports, cache, heap, threads>>

\* d.matches(...) and d.combinedDirective(e).matches(...) on the same arguments
MatchDirectiveAndCombinedDirective ==
    /\ pc = Return("Directive.combinedDirective")
    /\ result.isRegularDirective
    /\ \E before \in Directive_matches(direct, resourceURI, protectedDocumentURI,
                                       schemePortMappings),
          after \in Directive_matches(result, resourceURI, protectedDocumentURI,
                                      schemePortMappings) :
          matched' = <<before, after>>
    /\ pc' = Matched("Directive.combinedDirective")
    /\ UNCHANGED <<srcExpr, direct, otherDirective, policy, otherPolicy,
                   resourceURI, resourceType, protectedDocumentURI, result,
                   reportType, text, parser, inputDirectives,
                   schemeOnlyArg, reports, cache, heap, threads>>

NextPermissive ==
    \/ CallPolicy_combinedPolicy
    \/ CallDirective_combinedDirective
    \/ MatchPolicyAndCombinedPolicy
    \/ MatchDirectiveAndCombinedDirective

SpecPermissive == InitPermissive /\ [][NextPermissive]_vars

\* C11: when p.combinedPolicy(q) is not Policy.INVALID, a load that p.matches
\* allows is allowed by the combined policy; and when d.combinedDirective(e)
\* is regular, a URI that d.matches allows is allowed by the combined
\* directive.
C11_MorePermissive ==
    pc \in {Matched("Policy.combinedPolicy"), Matched("Directive.combinedDirective")}
        => (matched[1] = "True" => matched[2] = "True")

-----------------------------------------------------------------------------
(* generateDirective, and matching the reported event against its result *)

GenerateDirectives ==
    SentinelDirectives \cup
    {Directive(t, w) : t \in {"script-src", "style-src", "img-src", "default-src"},
                       w \in {{}, {SELF}}}

ReportTypes == {"regular", "eval", "inline", "other"}

\* resourceURI is the argument 'blockedURI' of generateDirective
InitGenerate ==
    /\ direct \in GenerateDirectives
    /\ reportType \in ReportTypes
    /\ resourceURI \in URIs
    /\ protectedDocumentURI \in SomeDocumentURIs
    /\ pc = Call("Directive.generateDirective")
    /\ Unused(srcExpr) /\ Unused(otherDirective) /\ Unused(policy)
    /\ Unused(otherPolicy) /\ Unused(resourceType) /\ Unused(result)
    /\ Unused(text) /\ Unused(parser) /\ Unused(matched) /\ Unused(inputDirectives)
    /\ Unused(schemeOnlyArg) /\ Unused(reports)
    /\ Unused(cache) /\ Unused(heap) /\ Unused(threads)

CallDirective_generateDirective ==
    /\ pc = Call("Directive.generateDirective")
    /\ Returns("Directive.generateDirective",
               Directive_generateDirective(direct, reportType, resourceURI))

\* the event a report of the given type is about
ReportedEvent ==
    CASE reportType = "eval" -> URI_EVAL
      [] reportType = "inline" -> URI_INLINE
      [] OTHER -> resourceURI

\* the generated directive is asked about the reported event
MatchGeneratedDirective ==
    /\ pc = Return("Directive.generateDirective")
    /\ result # Directive_INVALID
    /\ \E outcome \in Directive_matches(result, ReportedEvent, protectedDocumentURI,
                                        schemePortMappings) :
          matched' = outcome
    /\ pc' = Matched("Directive.generateDirective")
    /\ UNCHANGED <<srcExpr, direct, otherDirective, policy, otherPolicy,
                   resourceURI, resourceType, protectedDocumentURI, result,
                   reportType, text, parser, inputDirectives,
                   schemeOnlyArg, reports, cache, heap, threads>>

NextGenerate ==
    \/ CallDirective_generateDirective
    \/ MatchGeneratedDirective

SpecGenerate == InitGenerate /\ [][NextGenerate]_vars

\* the cases in which C12 has generateDirective return Directive.INVALID
C12_ClaimedInvalid ==
    LET IsInlineSentinel ==
            direct \in {INLINE_SCRIPT_BASE_RESTRICTION, INLINE_STYLE_BASE_RESTRICTION}
        type == IF direct = EVAL_SCRIPT_BASE_RESTRICTION THEN "script-src"
                ELSE IF direct = INLINE_SCRIPT_BASE_RESTRICTION THEN "script-src"
                ELSE IF direct = INLINE_STYLE_BASE_RESTRICTION THEN "style-src"
                ELSE direct.directiveType
    IN  \/ direct = Directive_INVALID
        \/ (direct = EVAL_SCRIPT_BASE_RESTRICTION /\ reportType # "eval")
        \/ (IsInlineSentinel /\ reportType # "inline")
        \/ type = "default-src"
        \/ reportType \notin {"regular", "eval", "inline"}
        \/ resourceURI = URI_INVALID
        \/ (reportType = "regular" /\ ~resourceURI.isRegularURI)
        \/ (reportType = "eval" /\ type # "script-src")
        \/ (reportType = "inline" /\ type \notin {"script-src", "style-src"})

\* the one expression C12 has the generated directive whitelist
C12_ClaimedExpression ==
    CASE reportType = "eval" -> UNSAFE_EVAL
      [] reportType = "inline" -> UNSAFE_INLINE
      [] OTHER -> URISourceExpression(resourceURI.scheme, resourceURI.host,
                                      resourceURI.port, resourceURI.path)

\* C12: generateDirective returns Directive.INVALID exactly in the listed
\* cases; otherwise it returns a regular directive of the receiver's type
\* (script-src or style-src for the sentinels) that whitelists exactly one
\* expression: the URI expression of blockedURI's scheme, host, port and
\* path for 'regular', 'unsafe-eval' for 'eval', 'unsafe-inline' for
\* 'inline', whatever the receiver whitelists.
C12_GenerateDirective ==
    pc = Return("Directive.generateDirective") =>
        IF C12_ClaimedInvalid THEN result = Directive_INVALID
        ELSE /\ result.isRegularDirective
             /\ result.directiveType = getType(direct)
             /\ result.whitelistedSourceExpressions = {C12_ClaimedExpression}

\* the eval sentinel, with a report of type 'eval', gave script-src 'unsafe-eval'
C12_Witness ==
    /\ pc = Return("Directive.generateDirective")
    /\ direct = EVAL_SCRIPT_BASE_RESTRICTION
    /\ reportType = "eval"
    /\ result = Directive("script-src", {UNSAFE_EVAL})

\* C13: a directive generated for a report matches the reported event,
\* whatever the protected document: blockedURI for 'regular', URI.EVAL for
\* 'eval', URI.INLINE for 'inline'.
C13_AllowsReportedEvent ==
    pc = Matched("Directive.generateDirective") => matched = "True"

-----------------------------------------------------------------------------
(* The calls of DirectiveParser.parse *)

MaxTokens == 2

Tokens ==
    {"'none'", "'NONE'", "'self'", "'UNSAFE-EVAL'", "'unsafe-inline'", "*",
     "http://a", "HTTP://A", "'blah'", "ftp://a"}

TokenLists == UNION {[1..n -> Tokens] : n \in 1..MaxTokens}

\* the three phrases DirectiveParser.parse recognises before it looks for a
\* type
BaseRestrictionPhrases ==
    {"inline style base restriction", "inline script base restriction",
     "eval script base restriction"}

DirectiveTypeTexts ==
    {"img-src", "IMG-SRC", "script-src", "style-src", "default-src", "xhr-src",
     "sandbox", "bogus-src"}

DirectiveTexts ==
    {[type |-> t, tokens |-> ts] : t \in DirectiveTypeTexts, ts \in TokenLists}
    \cup {[type |-> t, tokens |-> <<>>] :
             t \in DirectiveTypeTexts \cup BaseRestrictionPhrases \cup {""}}

DirectiveParsers == [strict : BOOLEAN]

InitDirectiveParser ==
    /\ parser \in DirectiveParsers
    /\ text \in DirectiveTexts
    /\ pc = Call("DirectiveParser.parse")
    /\ Unused(srcExpr) /\ Unused(direct) /\ Unused(otherDirective)
    /\ Unused(policy) /\ Unused(otherPolicy) /\ Unused(resourceURI)
    /\ Unused(resourceType) /\ Unused(protectedDocumentURI) /\ Unused(result)
    /\ Unused(reportType) /\ Unused(matched) /\ Unused(inputDirectives)
    /\ Unused(schemeOnlyArg) /\ Unused(reports)
    /\ Unused(cache) /\ Unused(heap) /\ Unused(threads)

CallDirectiveParser_parse ==
    Returns("DirectiveParser.parse", DirectiveParser_parse(parser, text))

NextDirectiveParser == CallDirectiveParser_parse

SpecDirectiveParser == InitDirectiveParser /\ [][NextDirectiveParser]_vars

\* the type of the directive text after lower-casing and translation
TranslatedType(s) ==
    IF lowerDirectiveType(s.type) = "xhr-src" THEN "connect-src"
    ELSE lowerDirectiveType(s.type)

HasSeparator(s) == s.tokens # <<>>

IsNone(token) == lowerToken(token) = "'none'"

ExpressionOf(token) == SourceExpressionParser_parse(supportedSchemes, token)

\* a token that strict mode refuses and non-strict mode drops
Offending(s, token) ==
    /\ ~IsNone(token)
    /\ \/ ExpressionOf(token) = SourceExpression_INVALID
       \/ ExpressionOf(token) = UNSAFE_EVAL
            /\ TranslatedType(s) \notin {"script-src", "default-src"}
       \/ ExpressionOf(token) = UNSAFE_INLINE
            /\ TranslatedType(s) \notin {"script-src", "style-src", "default-src"}

TokensOf(s) == {s.tokens[i] : i \in DOMAIN s.tokens}

NoneWithOthers(s) == (\E t \in TokensOf(s) : IsNone(t)) /\ Len(s.tokens) > 1

RemainingDirective(s) ==
    Directive(TranslatedType(s),
              {ExpressionOf(t) : t \in {u \in TokensOf(s) : ~IsNone(u) /\ ~Offending(s, u)}})

C15_Claimed(s) ==
    IF ~HasSeparator(s) \/ TranslatedType(s) \notin allowedDirectiveTypes
    THEN Directive_INVALID
    ELSE IF parser.strict /\ (NoneWithOthers(s) \/ \E t \in TokensOf(s) : Offending(s, t))
    THEN Directive_INVALID
    ELSE RemainingDirective(s)

-----------------------------------------------------------------------------
(* The calls of PolicyParser.parse *)

MaxSegments == 3

\* the texts between the ";" of a policy text; the text "" is what
\* str.split(";") yields for an empty policy text and after a final ";"
PolicySegments ==
    {[type |-> "img-src", tokens |-> <<"http://a">>],
     [type |-> "img-src", tokens |-> <<"'blah'">>],
     [type |-> "IMG-SRC", tokens |-> <<"*">>],
     [type |-> "script-src", tokens |-> <<"'self'">>],
     [type |-> "default-src", tokens |-> <<"'self'">>],
     [type |-> "default-src", tokens |-> <<"*", "ws://a:80">>],
     [type |-> "form-action", tokens |-> <<"'self'">>],
     [type |-> "sandbox", tokens |-> <<>>],
     [type |-> "sandbox", tokens |-> <<"'blah'">>],
     [type |-> "SANDBOX", tokens |-> <<"'blah'">>],
     [type |-> "sandboxed", tokens |-> <<"'self'">>],
     [type |-> "eval script base restriction", tokens |-> <<>>],
     [type |-> "", tokens |-> <<>>]}

PolicyTexts == UNION {[1..n -> PolicySegments] : n \in 1..MaxSegments}

PolicyParsers ==
    [strict : BOOLEAN, expandDefaultSrc : BOOLEAN,
     defaultSrcTypes : {defaultSrcReplacementDirectiveTypes, {"script-src", "img-src"}}]

InitPolicyParser ==
    /\ parser \in PolicyParsers
    /\ text \in PolicyTexts
    /\ pc = Call("PolicyParser.parse")
    /\ Unused(srcExpr) /\ Unused(direct) /\ Unused(otherDirective)
    /\ Unused(policy) /\ Unused(otherPolicy) /\ Unused(resourceURI)
    /\ Unused(resourceType) /\ Unused(protectedDocumentURI) /\ Unused(result)
    /\ Unused(reportType) /\ Unused(matched) /\ Unused(inputDirectives)
    /\ Unused(schemeOnlyArg) /\ Unused(reports)
    /\ Unused(cache) /\ Unused(heap) /\ Unused(threads)

CallPolicyParser_parse ==
    \E parsed \in PolicyParser_parse(parser, text) :
        Returns("PolicyParser.parse", parsed)

NextPolicyParser == CallPolicyParser_parse

SpecPolicyParser == InitPolicyParser /\ [][NextPolicyParser]_vars

\* the policy text without the segments at the positions in 'dropped'
RECURSIVE Without(_, _)
Without(segments, dropped) ==
    IF segments = <<>> THEN <<>>
    ELSE LET n == Len(segments)
             front == Without(SubSeq(segments, 1, n - 1), dropped)
         IN  IF n \in dropped THEN front ELSE Append(front, segments[n])

\* the leading directive-type token of the segment is an ignored type
LeadsWithIgnoredType(s) == lowerDirectiveType(s.type) \in ignoredDirectiveTypes

\* the leading token starts with the name of an ignored type and is another
\* word
OtherWordThanIgnoredType(s) == s.type = "sandboxed"

IgnoredPositions == {i \in DOMAIN text : LeadsWithIgnoredType(text[i])}

\* the positions of the segments that are not ignored and parse to
\* Directive.INVALID
InvalidPositions ==
    {i \in DOMAIN text :
        /\ ~LeadsWithIgnoredType(text[i])
        /\ DirectiveParser_parse(parser, text[i]) = Directive_INVALID}

EmptyPolicy == [isInvalid |-> FALSE, directives |-> {}]

\* C16: PolicyParser strictness. In strict mode the result is
\* Policy.INVALID if a segment that is not ignored parses to
\* Directive.INVALID; in non-strict mode the result is the one built from
\* the text without those segments; and in both modes the result is never
\* the valid policy without directives.
C16_PolicyParserStrictness ==
    pc = Return("PolicyParser.parse") =>
        /\ (parser.strict /\ InvalidPositions # {}) => result = Policy_INVALID
        /\ ~parser.strict =>
              result \in PolicyParser_parse(parser, Without(text, InvalidPositions))
        /\ result # EmptyPolicy

\* the type a segment is of: its leading word, lower-cased and translated,
\* when values follow it
SegmentType(s) == IF HasSeparator(s) THEN Some(TranslatedType(s)) ELSE None

\* the positions of the later segments of a type already seen in the text
LaterDuplicates ==
    {i \in DOMAIN text :
        /\ SegmentType(text[i]) # None
        /\ SegmentType(text[i])[1] \in allowedDirectiveTypes
        /\ \E j \in 1..(i - 1) : SegmentType(text[j]) = SegmentType(text[i])}

\* C17: the first directive of a type wins. In both modes, taking a later
\* segment of an already seen type out of the policy text, whatever the
\* segment holds, leaves the parse result as it is.
C17_FirstDirectiveWins ==
    pc = Return("PolicyParser.parse") =>
        \A i \in LaterDuplicates :
            result \in PolicyParser_parse(parser, Without(text, {i}))

\* C18: ignored directive types. In both modes a segment whose leading word
\* is an ignored type, with or without values, is skipped: the result is
\* the one of the text without these segments whenever that text has a
\* valid result; a segment whose leading word only starts with an ignored
\* type is not skipped, so strict mode refuses the text.
C18_IgnoredTypesSkipped ==
    pc = Return("PolicyParser.parse") =>
        /\ PolicyParser_parse(parser, Without(text, IgnoredPositions)) # {Policy_INVALID}
              => result \in PolicyParser_parse(parser, Without(text, IgnoredPositions))
        /\ (parser.strict /\ \E i \in DOMAIN text : OtherWordThanIgnoredType(text[i]))
              => result = Policy_INVALID

\* the directive of type t in policy pol
DirectiveOfType(pol, t) == CHOOSE d \in pol.directives : getType(d) = t

\* what the parser returns for the text when expandDefaultSrc is off
Unexpanded == PolicyParser_parse([parser EXCEPT !.expandDefaultSrc = FALSE], text)

\* the policy u with its default-src whitelist given to every type of D
\* that u does not hold, and default-src taken out
FannedOut(u, D) ==
    [isInvalid |-> FALSE,
     directives |->
        {d \in u.directives : getType(d) # "default-src"}
        \cup {Directive(t, DirectiveOfType(u, "default-src").whitelistedSourceExpressions) :
                 t \in D \ TypesOf(u)}]

\* C19: default-src fan-out. With expandDefaultSrc set and a default-src
\* directive in the parsed text, the result has no default-src, has for
\* every type of defaultSrcTypes that the text does not specify a directive
\* with the default-src whitelist, and keeps the specified directives; in
\* every other case the result is the one parsed without expansion.
C19_DefaultSrcFanOut ==
    pc = Return("PolicyParser.parse") =>
        \A u \in Unexpanded :
            IF /\ parser.expandDefaultSrc
               /\ u # Policy_INVALID
               /\ "default-src" \in TypesOf(u)
            THEN result = FannedOut(u, parser.defaultSrcTypes)
            ELSE result = u

-----------------------------------------------------------------------------
(* Parsing a policy text with and without default-src expansion, and       *)
(* matching a resource against both results                                *)

ExpansionSegments ==
    {[type |-> "img-src", tokens |-> <<"http://a">>],
     [type |-> "script-src", tokens |-> <<"'self'">>],
     [type |-> "default-src", tokens |-> <<"'self'">>],
     [type |-> "default-src", tokens |-> <<"*", "ws://a:80">>],
     [type |-> "form-action", tokens |-> <<"'self'">>],
     [type |-> "eval script base restriction", tokens |-> <<>>]}

ExpansionTexts == UNION {[1..n -> ExpansionSegments] : n \in 1..MaxSegments}

ExpansionResourceTypes == {"script-src", "img-src", "style-src", "form-action"}

ExpansionURIs ==
    {URI(Some("http"), Some(hostA), None, None, None),
     URI(Some("http"), Some(hostBA), Some(80), None, None),
     URI(Some("ws"), Some(hostA), None, None, None),
     URI_EVAL}

ExpansionDocumentURIs ==
    {URI(Some("http"), Some(hostA), None, None, None),
     URI(Some("https"), Some(hostA), None, None, None)}

InitExpansion ==
    /\ parser \in {p \in PolicyParsers : p.expandDefaultSrc}
    /\ text \in ExpansionTexts
    /\ resourceURI \in ExpansionURIs
    /\ resourceType \in ExpansionResourceTypes
    /\ protectedDocumentURI \in ExpansionDocumentURIs
    /\ pc = Call("PolicyParser.parse")
    /\ Unused(srcExpr) /\ Unused(direct) /\ Unused(otherDirective)
    /\ Unused(policy) /\ Unused(otherPolicy) /\ Unused(result)
    /\ Unused(reportType) /\ Unused(matched) /\ Unused(inputDirectives)
    /\ Unused(schemeOnlyArg) /\ Unused(reports)
    /\ Unused(cache) /\ Unused(heap) /\ Unused(threads)

\* the text parsed by the parser and by the parser that differs from it in
\* expandDefaultSrc only: policy is the expanded, otherPolicy the unexpanded
\* result
CallBothPolicyParsers ==
    /\ pc = Call("PolicyParser.parse")
    /\ policy' \in PolicyParser_parse(parser, text)
    /\ otherPolicy' \in PolicyParser_parse([parser EXCEPT !.expandDefaultSrc = FALSE], text)
    /\ pc' = Return("PolicyParser.parse")
    /\ UNCHANGED <<srcExpr, direct, otherDirective, resourceURI, resourceType,
                   protectedDocumentURI, result, reportType, text, parser,
                   matched, inputDirectives,
                   schemeOnlyArg, reports, cache, heap, threads>>

MatchBothPolicies ==
    /\ pc = Return("PolicyParser.parse")
    /\ \E expanded \in Policy_matches(policy, resourceURI, resourceType,
                                      protectedDocumentURI, schemePortMappings,
                                      parser.defaultSrcTypes),
          unexpanded \in Policy_matches(otherPolicy, resourceURI, resourceType,
                                        protectedDocumentURI, schemePortMappings,
                                        parser.defaultSrcTypes) :
          matched' = <<expanded, unexpanded>>
    /\ pc' = Matched("PolicyParser.parse")
    /\ UNCHANGED <<srcExpr, direct, otherDirective, policy, otherPolicy,
                   resourceURI, resourceType, protectedDocumentURI, result,
                   reportType, text, parser, inputDirectives,
                   schemeOnlyArg, reports, cache, heap, threads>>

NextExpansion == CallBothPolicyParsers \/ MatchBothPolicies

SpecExpansion == InitExpansion /\ [][NextExpansion]_vars

\* C20: expanding default-src preserves the semantics of the policy. For
\* every policy text, two parsers that differ in expandDefaultSrc only,
\* and every resource URI, protected document and resource type other than
\* default-src, the expanded and the unexpanded policy give the same
\* Policy.matches result under the parsers' defaultSrcTypes.
C20_ExpansionPreservesMatches ==
    pc = Matched("PolicyParser.parse") => matched[1] = matched[2]

-----------------------------------------------------------------------------
(* Sequences of operations: every operation takes its receiver from the    *)
(* result of the operation before it and its other arguments from the      *)
(* sets below. Before the first operation nothing has been built.          *)

DataTypes == {"script-src", "img-src"}

pathP == <<"/", "p">>

DataExpressions ==
    {SELF, SourceExpression_INVALID,
     URISourceExpression(Some("http"), Some(hostA), None, Some(pathP)),
     URISourceExpression(None, Some(hostA), None, Some(pathP))}

\* the directives handed to the Policy constructor
ConstructorDirectives ==
    {Directive(t, w) : t \in DataTypes, w \in {{}, {SELF}}}
    \cup {Directive_INVALID, EVAL_SCRIPT_BASE_RESTRICTION}

\* the arguments of combinedDirective and of combinedPolicy
DataDirectives ==
    {Directive("script-src", {SELF}),
     Directive("img-src", {URISourceExpression(Some("http"), Some(hostA), None, Some(pathP))}),
     Directive_INVALID}

DataPolicies ==
    {Policy_INVALID} \cup UNION {Policy({d}) : d \in DataDirectives}

SchemeOnlyLists == SUBSET {"http", "ws"}

\* the blocked-uri of a report
DataURIs ==
    {URI(Some("http"), Some(hostA), None, Some(pathP), None),
     URI(None, Some(hostA), None, None, None),
     URI_INVALID, URI_EVAL}

DataSegments ==
    {[type |-> "img-src", tokens |-> <<"http://a/p">>],
     [type |-> "default-src", tokens |-> <<"'self'">>],
     [type |-> "eval script base restriction", tokens |-> <<>>]}

\* the parsers with the smaller of the two defaultSrcTypes
DataPolicyParsers == {p \in PolicyParsers : p.defaultSrcTypes = DataTypes}

DataPolicyTexts == UNION {[1..n -> DataSegments] : n \in 1..MaxSegments}

DataDirectiveTexts ==
    {[type |-> "img-src", tokens |-> ts] :
        ts \in UNION {[1..n -> {"'none'", "'self'", "http://a/p", "'blah'"}] :
                         n \in 1..MaxTokens}}
    \cup {[type |-> "inline style base restriction", tokens |-> <<>>]}

\* the reports whose violated-directive is 'violated'
Reports(violated) ==
    {Report_INVALID, ("violated-directive" :> violated)}
    \cup {("violated-directive" :> violated) @@ ("blocked-uri" :> u) : u \in DataURIs}

\* the operations that return a policy, and those that return a directive
PolicyOperations ==
    {"Policy.__init__", "PolicyParser.parse", "Policy.combinedPolicy",
     "Policy.withoutPaths", "Policy.asBasicPolicies", "Report.generatePolicy"}

DirectiveOperations ==
    {"Directive.__init__", "DirectiveParser.parse", "Directive.combinedDirective",
     "Directive.withoutPaths", "Directive.asBasicDirectives",
     "Directive.generateDirective"}

\* the result of the operation before is a policy, a directive
HoldsPolicy == pc[1] = "return" /\ pc[2] \in PolicyOperations

HoldsDirective == pc[1] = "return" /\ pc[2] \in DirectiveOperations

InitOperations ==
    /\ pc = Call("csp")
    /\ Unused(srcExpr) /\ Unused(direct) /\ Unused(otherDirective)
    /\ Unused(policy) /\ Unused(otherPolicy) /\ Unused(resourceURI)
    /\ Unused(resourceType) /\ Unused(protectedDocumentURI) /\ Unused(result)
    /\ NoOtherArguments

\* operation m has returned: the variables of the calls stay unused
Returned(m) ==
    /\ pc' = Return(m)
    /\ UNCHANGED <<srcExpr, direct, otherDirective, policy, otherPolicy,
                   resourceURI, resourceType, protectedDocumentURI,
                   reportType, text, parser, matched,
                   schemeOnlyArg, reports, cache, heap, threads>>

NewPolicy ==
    /\ \E given \in SUBSET ConstructorDirectives :
          inputDirectives' = given /\ result' \in Policy(given)
    /\ Returned("Policy.__init__")

NewDirective ==
    /\ \E t \in DataTypes, w \in SUBSET DataExpressions : result' = Directive(t, w)
    /\ inputDirectives' = None
    /\ Returned("Directive.__init__")

ParsePolicy ==
    /\ \E p \in DataPolicyParsers, s \in DataPolicyTexts :
          result' \in PolicyParser_parse(p, s)
    /\ inputDirectives' = None
    /\ Returned("PolicyParser.parse")

ParseDirective ==
    /\ \E p \in DirectiveParsers, s \in DataDirectiveTexts :
          result' = DirectiveParser_parse(p, s)
    /\ inputDirectives' = None
    /\ Returned("DirectiveParser.parse")

CombinePolicy ==
    /\ HoldsPolicy
    /\ \E other \in DataPolicies :
          result' \in Policy_combinedPolicy(result, other)
    /\ inputDirectives' = None
    /\ Returned("Policy.combinedPolicy")

CombineDirective ==
    /\ HoldsDirective
    /\ \E other \in DataDirectives :
          result' = Directive_combinedDirective(result, other)
    /\ inputDirectives' = None
    /\ Returned("Directive.combinedDirective")

PolicyWithoutPaths ==
    /\ HoldsPolicy
    /\ \E l \in SchemeOnlyLists :
          result' \in Policy_withoutPaths(result, l)
    /\ inputDirectives' = None
    /\ Returned("Policy.withoutPaths")

DirectiveWithoutPaths ==
    /\ HoldsDirective
    /\ \E l \in SchemeOnlyLists :
          result' = Directive_withoutPaths(result, l)
    /\ inputDirectives' = None
    /\ Returned("Directive.withoutPaths")

PolicyAsBasicPolicies ==
    /\ HoldsPolicy
    /\ result' \in Policy_asBasicPolicies(result)
    /\ inputDirectives' = None
    /\ Returned("Policy.asBasicPolicies")

DirectiveAsBasicDirectives ==
    /\ HoldsDirective
    /\ result' \in Directive_asBasicDirectives(result)
    /\ inputDirectives' = None
    /\ Returned("Directive.asBasicDirectives")

GenerateDirective ==
    /\ HoldsDirective
    /\ \E repType \in ReportTypes, blockedURI \in DataURIs :
          result' = Directive_generateDirective(result, repType, blockedURI)
    /\ inputDirectives' = None
    /\ Returned("Directive.generateDirective")

GeneratePolicy ==
    /\ HoldsDirective
    /\ \E report \in Reports(result), repType \in ReportTypes :
          result' \in Report_generatePolicy(report, repType)
    /\ inputDirectives' = None
    /\ Returned("Report.generatePolicy")

NextOperations ==
    \/ NewPolicy
    \/ NewDirective
    \/ ParsePolicy
    \/ ParseDirective
    \/ CombinePolicy
    \/ CombineDirective
    \/ PolicyWithoutPaths
    \/ DirectiveWithoutPaths
    \/ PolicyAsBasicPolicies
    \/ DirectiveAsBasicDirectives
    \/ GenerateDirective
    \/ GeneratePolicy

SpecOperations == InitOperations /\ [][NextOperations]_vars

NoInvalidExpression(d) == SourceExpression_INVALID \notin d.whitelistedSourceExpressions

OneDirectivePerType(pol) ==
    \A d1, d2 \in pol.directives : getType(d1) = getType(d2) => d1 = d2

\* C14: data-model invariants. After any sequence of operations, a policy
\* obtained from the Policy constructor, PolicyParser.parse, combinedPolicy,
\* withoutPaths, asBasicPolicies or Report.generatePolicy holds at most one
\* directive per type and regular directives only, the constructor keeping
\* directives it was given; and no whitelist of a directive obtained from
\* the Directive constructor, DirectiveParser.parse, combinedDirective,
\* generateDirective, withoutPaths or asBasicDirectives, or held by such a
\* policy, contains SourceExpression.INVALID.
C14_DataModelInvariants ==
    /\ HoldsPolicy =>
          /\ OneDirectivePerType(result)
          /\ \A d \in result.directives : d.isRegularDirective /\ NoInvalidExpression(d)
          /\ pc = Return("Policy.__init__") => result.directives \subseteq inputDirectives
    /\ HoldsDirective => NoInvalidExpression(result)

\* the constructor was given two regular directives of one type and a
\* directive that is not regular, and has kept one directive
C14_Witness ==
    /\ pc = Return("Policy.__init__")
    /\ \E d1, d2 \in inputDirectives :
          d1 # d2 /\ d1.isRegularDirective /\ d2.isRegularDirective
              /\ getType(d1) = getType(d2)
    /\ \E d \in inputDirectives : ~d.isRegularDirective
    /\ Cardinality(result.directives) = 1

-----------------------------------------------------------------------------
(* withoutPaths, called on a policy or a directive and then on its result  *)

seHttpAP == URISourceExpression(Some("http"), Some(hostA), None, Some(pathP))

seAP == URISourceExpression(None, Some(hostA), None, Some(pathP))

seWsA80P == URISourceExpression(Some("ws"), Some(hostA), Some(80), Some(pathP))

PathWhitelists ==
    {{}, {SELF, seHttpAP}, {seAP, UNSAFE_INLINE}, {seHttpAP, seHttpA, seWsA80P},
     {seStar, UNSAFE_EVAL, seWsA80P}, {seHttpA}}

PathDirectives ==
    {Directive(t, w) : t \in DataTypes, w \in PathWhitelists} \cup SentinelDirectives

PathPolicies ==
    {Policy_INVALID} \cup
    UNION {UNION {Policy({Directive(t, f[t]) : t \in T}) : f \in [T -> PathWhitelists]} :
              T \in SUBSET DataTypes}

InitPolicyWithoutPaths ==
    /\ policy \in PathPolicies
    /\ schemeOnlyArg \in SchemeOnlyLists
    /\ pc = Call("Policy.withoutPaths")
    /\ Unused(direct)

InitDirectiveWithoutPaths ==
    /\ direct \in PathDirectives
    /\ schemeOnlyArg \in SchemeOnlyLists
    /\ pc = Call("Directive.withoutPaths")
    /\ Unused(policy)

InitWithoutPaths ==
    /\ InitPolicyWithoutPaths \/ InitDirectiveWithoutPaths
    /\ Unused(srcExpr) /\ Unused(otherDirective) /\ Unused(otherPolicy)
    /\ Unused(resourceURI) /\ Unused(resourceType) /\ Unused(protectedDocumentURI)
    /\ Unused(result) /\ Unused(reportType) /\ Unused(text) /\ Unused(parser)
    /\ Unused(matched) /\ Unused(inputDirectives) /\ Unused(reports)
    /\ Unused(cache) /\ Unused(heap) /\ Unused(threads)

CallPolicy_withoutPaths ==
    /\ pc = Call("Policy.withoutPaths")
    /\ result' \in Policy_withoutPaths(policy, schemeOnlyArg)
    /\ pc' = Return("Policy.withoutPaths")
    /\ UNCHANGED <<srcExpr, direct, otherDirective, policy, otherPolicy,
                   resourceURI, resourceType, protectedDocumentURI,
                   reportType, text, parser, matched, inputDirectives,
                   schemeOnlyArg, reports, cache, heap, threads>>

CallDirective_withoutPaths ==
    /\ pc = Call("Directive.withoutPaths")
    /\ result' = Directive_withoutPaths(direct, schemeOnlyArg)
    /\ pc' = Return("Directive.withoutPaths")
    /\ UNCHANGED <<srcExpr, direct, otherDirective, policy, otherPolicy,
                   resourceURI, resourceType, protectedDocumentURI,
                   reportType, text, parser, matched, inputDirectives,
                   schemeOnlyArg, reports, cache, heap, threads>>

\* withoutPaths called on the result, with the same list
CallPolicy_withoutPathsAgain ==
    /\ pc = Return("Policy.withoutPaths")
    /\ matched' \in Policy_withoutPaths(result, schemeOnlyArg)
    /\ pc' = Matched("Policy.withoutPaths")
    /\ UNCHANGED <<srcExpr, direct, otherDirective, policy, otherPolicy,
                   resourceURI, resourceType, protectedDocumentURI, result,
                   reportType, text, parser, inputDirectives,
                   schemeOnlyArg, reports, cache, heap, threads>>

CallDirective_withoutPathsAgain ==
    /\ pc = Return("Directive.withoutPaths")
    /\ matched' = Directive_withoutPaths(result, schemeOnlyArg)
    /\ pc' = Matched("Directive.withoutPaths")
    /\ UNCHANGED <<srcExpr, direct, otherDirective, policy, otherPolicy,
                   resourceURI, resourceType, protectedDocumentURI, result,
                   reportType, text, parser, inputDirectives,
                   schemeOnlyArg, reports, cache, heap, threads>>

NextWithoutPaths ==
    \/ CallPolicy_withoutPaths
    \/ CallDirective_withoutPaths
    \/ CallPolicy_withoutPathsAgain
    \/ CallDirective_withoutPathsAgain

SpecWithoutPaths == InitWithoutPaths /\ [][NextWithoutPaths]_vars

Keywords(d) == {x \in d.whitelistedSourceExpressions : x.type # "uri"}

\* directive 'after' is path-free, reduced to the scheme for the schemes of
\* the list, and has the type and the keywords of 'before'
PathFree(before, after) ==
    /\ getType(after) = getType(before)
    /\ after.directiveType = before.directiveType
    /\ Keywords(after) = Keywords(before)
    /\ \A x \in after.whitelistedSourceExpressions :
          x.type = "uri" =>
              /\ x.path = None
              /\ (x.scheme # None /\ x.scheme[1] \in schemeOnlyArg)
                    => (x.host = None /\ x.port = None)

\* C22: withoutPaths is idempotent and path-free. For every policy and
\* directive and every schemeOnly list, the result has no path in any URI
\* expression, only the scheme in every URI expression whose scheme is in
\* the list, the keyword expressions and the directive types of the
\* receiver; Policy.INVALID and the directives that are not regular are
\* returned as they are; and withoutPaths on the result returns the result.
C22_WithoutPathsIdempotent ==
    /\ pc \in {Return("Directive.withoutPaths"), Matched("Directive.withoutPaths")} =>
          IF direct.isRegularDirective THEN PathFree(direct, result)
          ELSE result = direct
    /\ pc \in {Return("Policy.withoutPaths"), Matched("Policy.withoutPaths")} =>
          IF policy = Policy_INVALID THEN result = policy
          ELSE /\ result # Policy_INVALID
               /\ TypesOf(result) = TypesOf(policy)
               /\ \A t \in TypesOf(policy) :
                     PathFree(DirectiveOfType(policy, t), DirectiveOfType(result, t))
    /\ pc \in {Matched("Directive.withoutPaths"), Matched("Policy.withoutPaths")} =>
          matched = result

\* a policy with a path in a scheme of the list and a path in another
\* expression has gone through withoutPaths twice
C22_Witness ==
    /\ pc = Matched("Policy.withoutPaths")
    /\ schemeOnlyArg = {"http"}
    /\ \E d \in policy.directives :
          {seHttpAP, seWsA80P} \subseteq d.whitelistedSourceExpressions
    /\ \E d \in result.directives :
          URISourceExpression(Some("http"), None, None, None)
              \in d.whitelistedSourceExpressions

-----------------------------------------------------------------------------
(* Decomposition into basic directives and basic policies, and compareTo   *)

InitDecompose ==
    /\ \/ /\ direct \in PathDirectives
          /\ pc = Call("Directive.asBasicDirectives")
          /\ Unused(policy) /\ Unused(otherPolicy)
       \/ /\ policy \in PathPolicies
          /\ pc = Call("Policy.asBasicPolicies")
          /\ Unused(direct) /\ Unused(otherPolicy)
       \/ /\ policy \in PathPolicies
          /\ otherPolicy \in PathPolicies
          /\ pc = Call("Policy.compareTo")
          /\ Unused(direct)
    /\ Unused(srcExpr) /\ Unused(otherDirective)
    /\ Unused(resourceURI) /\ Unused(resourceType) /\ Unused(protectedDocumentURI)
    /\ Unused(result) /\ Unused(reportType) /\ Unused(text) /\ Unused(parser)
    /\ Unused(matched) /\ Unused(inputDirectives) /\ Unused(schemeOnlyArg)
    /\ Unused(reports) /\ Unused(cache) /\ Unused(heap) /\ Unused(threads)

CallDirective_asBasicDirectives ==
    /\ pc = Call("Directive.asBasicDirectives")
    /\ result' = Directive_asBasicDirectives(direct)
    /\ pc' = Return("Directive.asBasicDirectives")
    /\ UNCHANGED <<srcExpr, direct, otherDirective, policy, otherPolicy,
                   resourceURI, resourceType, protectedDocumentURI,
                   reportType, text, parser, matched, inputDirectives,
                   schemeOnlyArg, reports, cache, heap, threads>>

CallPolicy_asBasicPolicies ==
    /\ pc = Call("Policy.asBasicPolicies")
    /\ result' = Policy_asBasicPolicies(policy)
    /\ pc' = Return("Policy.asBasicPolicies")
    /\ UNCHANGED <<srcExpr, direct, otherDirective, policy, otherPolicy,
                   resourceURI, resourceType, protectedDocumentURI,
                   reportType, text, parser, matched, inputDirectives,
                   schemeOnlyArg, reports, cache, heap, threads>>

CallPolicy_compareTo ==
    /\ pc = Call("Policy.compareTo")
    /\ result' = Policy_compareTo(policy, otherPolicy)
    /\ pc' = Return("Policy.compareTo")
    /\ UNCHANGED <<srcExpr, direct, otherDirective, policy, otherPolicy,
                   resourceURI, resourceType, protectedDocumentURI,
                   reportType, text, parser, matched, inputDirectives,
                   schemeOnlyArg, reports, cache, heap, threads>>

NextDecompose ==
    \/ CallDirective_asBasicDirectives
    \/ CallPolicy_asBasicPolicies
    \/ CallPolicy_compareTo

SpecDecompose == InitDecompose /\ [][NextDecompose]_vars

Max(a, b) == IF a >= b THEN a ELSE b

C24_BasicPoliciesAreBasic ==
    pc = Return("Policy.asBasicPolicies") =>
        IF policy = Policy_INVALID THEN result = {}
        ELSE \A e \in result :
                /\ Policy_isBasicPolicy(e)
                /\ Cardinality(e.directives) = 1
                /\ \A d \in e.directives :
                      Cardinality(d.whitelistedSourceExpressions) = 1

\* C25: compareTo partitions the basic policies. For policies p and q other
\* than Policy.INVALID and (common, onlySelf, onlyOther) = p.compareTo(q),
\* the three sets are pairwise disjoint, common and onlySelf make up
\* p.asBasicPolicies(), common and onlyOther make up q.asBasicPolicies(),
\* q.compareTo(p) is (common, onlyOther, onlySelf) and p.compareTo(p) is
\* (p.asBasicPolicies(), {}, {}); with Policy.INVALID on either side the
\* three sets are empty.
C25_CompareToPartitions ==
    pc = Return("Policy.compareTo") =>
        IF policy = Policy_INVALID \/ otherPolicy = Policy_INVALID
        THEN result = <<{}, {}, {}>>
        ELSE /\ result[1] \cap result[2] = {}
             /\ result[1] \cap result[3] = {}
             /\ result[2] \cap result[3] = {}
             /\ result[1] \cup result[2] = Policy_asBasicPolicies(policy)
             /\ result[1] \cup result[3] = Policy_asBasicPolicies(otherPolicy)
             /\ Policy_compareTo(otherPolicy, policy)
                   = <<result[1], result[3], result[2]>>
             /\ Policy_compareTo(policy, policy)
                   = <<Policy_asBasicPolicies(policy), {}, {}>>

\* two policies with basic policies in common and basic policies of their
\* own have been compared
C25_Witness ==
    /\ pc = Return("Policy.compareTo")
    /\ result[1] # {} /\ result[2] # {} /\ result[3] # {}

-----------------------------------------------------------------------------
(* Claim on the outcomes of matching *)

MatchOperations ==
    {"SourceExpression.matches", "SelfSourceExpression.matches",
     "URISourceExpression.matches", "Directive.matches", "Policy.matches"}

\* C27: matching never fails out-of-band. For every source expression,
\* directive and policy, every resource URI and every protected document
\* URI (URIs without a scheme and URIs without a resolvable port included),
\* matches returns a boolean; an expression with a numeric port against a
\* resource URI without a resolvable port, and an expression without a
\* scheme against a protected document without a scheme, give False.
C27_MatchingNeverRaises ==
    /\ \A m \in MatchOperations :
          pc = Return(m) => result \in {"True", "False"}
    /\ ( /\ pc = Return("URISourceExpression.matches")
         /\ resourceURI.isRegularURI
         /\ ~IsBareStar(srcExpr)
         /\ ~IsSchemeOnly(srcExpr)
         /\ \/ srcExpr.scheme = None /\ protectedDocumentURI.scheme = None
            \/ /\ srcExpr.port \notin {None, Some(StarPort)}
               /\ ResolvedPort(resourceURI) = None )
       => result = "False"

-----------------------------------------------------------------------------
(* ReportParser.parseJsonDict *)

ReportParsers ==
    [strict : BOOLEAN,
     uriKeys : {uriKeys, {"blocked-uri"}},
     directiveKeys : {directiveKeys},
     policyKeys : {policyKeys},
     keyNameReplacements : {reportKeyNameReplacements},
     requiredKeys : {requiredReportKeys, {}}]

\* the dictionaries with or without the key k, its value out of 'values'
Field(k, values) == {<<>>} \cup {(k :> v) : v \in values}

ReportDirectiveTexts ==
    {[type |-> "img-src", tokens |-> <<"http://a">>],
     [type |-> "img-src", tokens |-> <<"'self'", "'blah'">>],
     [type |-> "blah-src", tokens |-> <<"'self'">>]}

ReportPolicyTexts ==
    {<<[type |-> "img-src", tokens |-> <<"http://a">>]>>,
     <<[type |-> "img-src", tokens |-> <<"http://a">>],
       [type |-> "blah-src", tokens |-> <<"'self'">>]>>}

JsonReports ==
    {a @@ b @@ c @@ d @@ e @@ f @@ g :
        a \in Field("blocked-uri", {"http://a", "", "http://a b", "self"}),
        b \in Field("document-uri", {"http://a", "http://a b", "self"}),
        c \in Field("document-url", {"http://b.a/a"}),
        d \in Field("violated-directive", ReportDirectiveTexts),
        e \in Field("original-policy", ReportPolicyTexts),
        f \in Field("Referrer", {"http://a b"}),
        g \in Field("status-code", {"200"})}

InitReportParser ==
    /\ parser \in ReportParsers
    /\ text \in JsonReports
    /\ pc = Call("ReportParser.parseJsonDict")
    /\ Unused(srcExpr) /\ Unused(direct) /\ Unused(otherDirective)
    /\ Unused(policy) /\ Unused(otherPolicy)
    /\ Unused(resourceURI) /\ Unused(resourceType) /\ Unused(protectedDocumentURI)
    /\ Unused(result) /\ Unused(reportType)
    /\ Unused(matched) /\ Unused(inputDirectives) /\ Unused(schemeOnlyArg)
    /\ Unused(reports) /\ Unused(cache) /\ Unused(heap) /\ Unused(threads)

CallReportParser_parseJsonDict ==
    /\ pc = Call("ReportParser.parseJsonDict")
    /\ result' \in ReportParser_parseJsonDict(parser, text)
    /\ pc' = Return("ReportParser.parseJsonDict")
    /\ UNCHANGED <<srcExpr, direct, otherDirective, policy, otherPolicy,
                   resourceURI, resourceType, protectedDocumentURI,
                   reportType, text, parser, matched, inputDirectives,
                   schemeOnlyArg, reports, cache, heap, threads>>

NextReportParser == CallReportParser_parseJsonDict

SpecReportParser == InitReportParser /\ [][NextReportParser]_vars

\* the keys of the renamed report r whose value the parser of the key turns
\* into URI.INVALID, Directive.INVALID or Policy.INVALID
InvalidFields(r) ==
    {k \in DOMAIN r \ deferredSelfURIs(parser, r) :
        \A v \in parsedValues(parser, k, r[k]) : isInvalidValue(parser, k, v)}

\* the result is what the claim says of the renamed report r
C26_Claimed(r) ==
    LET missing == {k \in parser.requiredKeys : k \notin DOMAIN r \/ k \in InvalidFields(r)}
    IN  /\ (parser.strict /\ InvalidFields(r) # {}) => result = Report_INVALID
        /\ missing # {} => result = Report_INVALID
        /\ result # Report_INVALID =>
              \A k \in DOMAIN r \ deferredSelfURIs(parser, r) :
                  IF k \in InvalidFields(r) THEN k \notin DOMAIN result
                  ELSE /\ k \in DOMAIN result
                       /\ result[k] \in parsedValues(parser, k, r[k])
        /\ ( /\ deferredSelfURIs(parser, r) = {}
             /\ ~(parser.strict /\ InvalidFields(r) # {})
             /\ missing = {}
             /\ DOMAIN r \ InvalidFields(r) # {} )
           => result # Report_INVALID

\* C26: ReportParser.parseJsonDict error handling. After the keys are
\* renamed, a configured URI, directive or policy field whose value parses to
\* URI.INVALID, Directive.INVALID or Policy.INVALID makes the result
\* Report.INVALID in strict mode and is dropped, all other fields kept, in
\* non-strict mode; in both modes the result is Report.INVALID when a
\* required key is absent from the converted fields, a required key dropped
\* for its invalid value included; fields that are not configured are passed
\* through unchanged.
C26_ReportParserErrorHandling ==
    pc = Return("ReportParser.parseJsonDict") =>
        \E r \in renamedReports(parser, text) : C26_Claimed(r)

\* a non-strict parser has dropped an invalid referrer and an invalid
\* policy and kept the required fields and a field that is not configured
C26_Witness ==
    /\ pc = Return("ReportParser.parseJsonDict")
    /\ ~parser.strict
    /\ parser.requiredKeys = requiredReportKeys
    /\ "Referrer" \in DOMAIN text
    /\ DOMAIN result = {"blocked-uri", "document-uri", "violated-directive", "status-code"}
    /\ result["status-code"] = "200"

-----------------------------------------------------------------------------
(* One text given to a strict parser and to the non-strict parser of the   *)
(* same configuration                                                      *)

InitStrictness ==
    /\ \/ /\ parser \in {p \in DirectiveParsers : p.strict}
          /\ text \in DirectiveTexts
          /\ pc = Call("DirectiveParser.parse")
       \/ /\ parser \in {p \in PolicyParsers : p.strict}
          /\ text \in PolicyTexts
          /\ pc = Call("PolicyParser.parse")
       \/ /\ parser \in {p \in ReportParsers : p.strict}
          /\ text \in JsonReports
          /\ pc = Call("ReportParser.parseJsonDict")
    /\ Unused(srcExpr) /\ Unused(direct) /\ Unused(otherDirective)
    /\ Unused(policy) /\ Unused(otherPolicy)
    /\ Unused(resourceURI) /\ Unused(resourceType) /\ Unused(protectedDocumentURI)
    /\ Unused(result) /\ Unused(reportType)
    /\ Unused(matched) /\ Unused(inputDirectives) /\ Unused(schemeOnlyArg)
    /\ Unused(reports) /\ Unused(cache) /\ Unused(heap) /\ Unused(threads)

\* the parser of the same configuration that is not strict
NonStrict(p) == [p EXCEPT !.strict = FALSE]

\* result: what the strict parser returns; matched: what the other returns.
\* Both report parsers iterate the same dictionary, so that of two keys with
\* one new name the same one stays for both.
CallBothDirectiveParsers ==
    /\ pc = Call("DirectiveParser.parse")
    /\ result' = DirectiveParser_parse(parser, text)
    /\ matched' = DirectiveParser_parse(NonStrict(parser), text)
    /\ pc' = Matched("DirectiveParser.parse")
    /\ UNCHANGED <<srcExpr, direct, otherDirective, policy, otherPolicy,
                   resourceURI, resourceType, protectedDocumentURI,
                   reportType, text, parser, inputDirectives,
                   schemeOnlyArg, reports, cache, heap, threads>>

CallStrictAndNonStrictPolicyParser ==
    /\ pc = Call("PolicyParser.parse")
    /\ result' \in PolicyParser_parse(parser, text)
    /\ matched' \in PolicyParser_parse(NonStrict(parser), text)
    /\ pc' = Matched("PolicyParser.parse")
    /\ UNCHANGED <<srcExpr, direct, otherDirective, policy, otherPolicy,
                   resourceURI, resourceType, protectedDocumentURI,
                   reportType, text, parser, inputDirectives,
                   schemeOnlyArg, reports, cache, heap, threads>>

CallBothReportParsers ==
    /\ pc = Call("ReportParser.parseJsonDict")
    /\ \E returned \in UNION {parseRenamedReport(parser, renamedReport)
                                  \X parseRenamedReport(NonStrict(parser), renamedReport) :
                              renamedReport \in renamedReports(parser, text)} :
          /\ result' = returned[1]
          /\ matched' = returned[2]
    /\ pc' = Matched("ReportParser.parseJsonDict")
    /\ UNCHANGED <<srcExpr, direct, otherDirective, policy, otherPolicy,
                   resourceURI, resourceType, protectedDocumentURI,
                   reportType, text, parser, inputDirectives,
                   schemeOnlyArg, reports, cache, heap, threads>>

NextStrictness ==
    \/ CallBothDirectiveParsers
    \/ CallStrictAndNonStrictPolicyParser
    \/ CallBothReportParsers

SpecStrictness == InitStrictness /\ [][NextStrictness]_vars

-----------------------------------------------------------------------------
(* A policy accumulated from reports: generatePolicy on each report, and   *)
(* combinedPolicy of the accumulated policy with what it returns           *)

MaxReports == 3

AccumulatedDirectives ==
    {Directive("img-src", {}), Directive("script-src", {SELF}),
     Directive("default-src", {SELF}), EVAL_SCRIPT_BASE_RESTRICTION,
     INLINE_STYLE_BASE_RESTRICTION}

AccumulatedURIs ==
    {URI(Some("http"), Some(hostA), None, None, None),
     URI(None, Some(hostBA), Some(80), Some(pathP), None),
     URI_EMPTY, URI_INVALID}

AccumulatedReports ==
    {Report_INVALID}
    \cup {("violated-directive" :> d) @@ ("blocked-uri" :> u) :
             d \in AccumulatedDirectives, u \in AccumulatedURIs}

\* policy: the accumulated policy, Policy(()) before the first report
InitAccumulate ==
    /\ policy \in Policy({})
    /\ reports = <<>>
    /\ pc = Call("Report.generatePolicy")
    /\ Unused(srcExpr) /\ Unused(direct) /\ Unused(otherDirective)
    /\ Unused(otherPolicy) /\ Unused(text) /\ Unused(parser)
    /\ Unused(resourceURI) /\ Unused(resourceType) /\ Unused(protectedDocumentURI)
    /\ Unused(result) /\ Unused(reportType)
    /\ Unused(matched) /\ Unused(inputDirectives) /\ Unused(schemeOnlyArg)
    /\ Unused(cache) /\ Unused(heap) /\ Unused(threads)

\* one report of the sequence: generatePolicy does not return
\* Policy.INVALID, and the accumulated policy is replaced by its
\* combinedPolicy with the generated policy
AccumulateReport ==
    /\ pc = Call("Report.generatePolicy")
    /\ Len(reports) < MaxReports
    /\ \E report \in AccumulatedReports, repType \in ReportTypes :
          \E generated \in Report_generatePolicy(report, repType) :
              /\ generated # Policy_INVALID
              /\ result' = generated
              /\ policy' \in Policy_combinedPolicy(policy, generated)
              /\ reports' = Append(reports, [report |-> report,
                                             reportType |-> repType,
                                             generated |-> generated])
    /\ UNCHANGED <<pc, srcExpr, direct, otherDirective, otherPolicy,
                   resourceURI, resourceType, protectedDocumentURI,
                   reportType, text, parser, matched, inputDirectives,
                   schemeOnlyArg, cache, heap, threads>>

NextAccumulate == AccumulateReport

SpecAccumulate == InitAccumulate /\ [][NextAccumulate]_vars

\* the accumulated policy has, in its directive of the report's violated
\* type, the source expression generated for the report
Holds(accumulated, processed) ==
    \A generated \in processed.generated.directives :
        \E d \in accumulated.directives :
            /\ getType(d) = getType(processed.report["violated-directive"])
            /\ generated.whitelistedSourceExpressions
                  \subseteq d.whitelistedSourceExpressions

\* C29: policy accumulation from reports is loss-free and never breaks.
\* Starting from Policy(()) and replacing the accumulated policy by its
\* combinedPolicy with the generated policy after each report whose
\* generatePolicy is not Policy.INVALID, the accumulated policy is never
\* Policy.INVALID, never has a default-src directive, and holds, for every
\* report processed so far, the source expression generated for it in the
\* directive of the report's violated type.
C29_AccumulationLossFree ==
    /\ policy # Policy_INVALID
    /\ "default-src" \notin TypesOf(policy)
    /\ \A i \in 1..Len(reports) :
          /\ Cardinality(reports[i].generated.directives) = 1
          /\ \A g \in reports[i].generated.directives :
                Cardinality(g.whitelistedSourceExpressions) = 1
          /\ Holds(policy, reports[i])

\* three reports of two types have been accumulated, two of them into the
\* same directive
C29_Witness ==
    /\ Len(reports) = MaxReports
    /\ Cardinality(policy.directives) = 2
    /\ \E d \in policy.directives : Cardinality(d.whitelistedSourceExpressions) = 2

-----------------------------------------------------------------------------
(* The sentinel accessors called by several threads. Every accessor is     *)
(*     if Cls._x is None:                                                   *)
(*         Cls._x = Cls(...)                                                *)
(*         Cls._x._flag = <sentinel>                                        *)
(*     return Cls._x                                                        *)
(* with the class attribute read again at each line and no lock. cache is   *)
(* the class attribute, heap the objects constructed so far with their     *)
(* flag (marked: _isRegularURI or _isRegularDirective set to False,         *)
(* _isInvalid set to True), threads the position of each thread.            *)

MaxThreads == 3

Threads == 1..MaxThreads

SentinelAccessors ==
    {"URI.INVALID", "URI.EMPTY", "URI.INLINE", "URI.EVAL",
     "Directive.INVALID", "Directive.INLINE_STYLE_BASE_RESTRICTION",
     "Directive.INLINE_SCRIPT_BASE_RESTRICTION",
     "Directive.EVAL_SCRIPT_BASE_RESTRICTION", "Policy.INVALID"}

InitSentinel ==
    /\ \E accessor \in SentinelAccessors : pc = Call(accessor)
    /\ cache = None
    /\ heap = <<>>
    /\ threads = [t \in Threads |-> [at |-> "if", object |-> None, returned |-> None]]
    /\ Unused(srcExpr) /\ Unused(direct) /\ Unused(otherDirective)
    /\ Unused(policy) /\ Unused(otherPolicy) /\ Unused(text) /\ Unused(parser)
    /\ Unused(resourceURI) /\ Unused(resourceType) /\ Unused(protectedDocumentURI)
    /\ Unused(result) /\ Unused(reportType)
    /\ Unused(matched) /\ Unused(inputDirectives) /\ Unused(schemeOnlyArg)
    /\ Unused(reports)

\* if Cls._x is None:
TestCache ==
    /\ \E t \in Threads :
          /\ threads[t].at = "if"
          /\ threads' = [threads EXCEPT ![t].at =
                            IF cache = None THEN "construct" ELSE "return"]
    /\ UNCHANGED <<pc, cache, heap, srcExpr, direct, otherDirective, policy,
                   otherPolicy, resourceURI, resourceType, protectedDocumentURI,
                   result, reportType, text, parser, matched, inputDirectives,
                   schemeOnlyArg, reports>>

\* Cls._x = Cls(...): the constructor leaves the object regular (Policy:
\* not invalid). The object of thread t is numbered t.
ConstructSentinel ==
    /\ \E t \in Threads :
          /\ threads[t].at = "construct"
          /\ heap' = (t :> [marked |-> FALSE]) @@ heap
          /\ cache' = Some(t)
          /\ threads' = [threads EXCEPT ![t].at = "load"]
    /\ UNCHANGED <<pc, srcExpr, direct, otherDirective, policy,
                   otherPolicy, resourceURI, resourceType, protectedDocumentURI,
                   result, reportType, text, parser, matched, inputDirectives,
                   schemeOnlyArg, reports>>

\* Cls._x._flag = ...: the class attribute is read
LoadSentinel ==
    /\ \E t \in Threads :
          /\ threads[t].at = "load"
          /\ threads' = [threads EXCEPT ![t].at = "mark", ![t].object = cache]
    /\ UNCHANGED <<pc, cache, heap, srcExpr, direct, otherDirective, policy,
                   otherPolicy, resourceURI, resourceType, protectedDocumentURI,
                   result, reportType, text, parser, matched, inputDirectives,
                   schemeOnlyArg, reports>>

\* Cls._x._flag = ...: the flag of the object read is set
MarkSentinel ==
    /\ \E t \in Threads :
          /\ threads[t].at = "mark"
          /\ heap' = [heap EXCEPT ![threads[t].object[1]].marked = TRUE]
          /\ threads' = [threads EXCEPT ![t].at = "return"]
    /\ UNCHANGED <<pc, cache, srcExpr, direct, otherDirective, policy,
                   otherPolicy, resourceURI, resourceType, protectedDocumentURI,
                   result, reportType, text, parser, matched, inputDirectives,
                   schemeOnlyArg, reports>>

\* return Cls._x: 'returned' keeps the object and its flag at the moment of
\* the return
ReturnSentinel ==
    /\ \E t \in Threads :
          /\ threads[t].at = "return"
          /\ threads' = [threads EXCEPT
                            ![t].at = "done",
                            ![t].returned = Some([object |-> cache[1],
                                                  marked |-> heap[cache[1]].marked])]
    /\ UNCHANGED <<pc, cache, heap, srcExpr, direct, otherDirective, policy,
                   otherPolicy, resourceURI, resourceType, protectedDocumentURI,
                   result, reportType, text, parser, matched, inputDirectives,
                   schemeOnlyArg, reports>>

NextSentinel ==
    \/ TestCache
    \/ ConstructSentinel
    \/ LoadSentinel
    \/ MarkSentinel
    \/ ReturnSentinel

SpecSentinel == InitSentinel /\ [][NextSentinel]_vars

HasReturned(t) == threads[t].returned # None

\* C28: sentinel initialisation is safe under concurrent first access. In
\* every interleaving of threads calling a sentinel accessor, every value
\* returned is already marked non-regular (Policy: invalid) at the moment it
\* is returned, any two values returned for one sentinel compare equal, and
\* no caller holds a sentinel that is regular, that is, equal to the regular
\* value of the same fields.
C28_SentinelsSafe ==
    /\ \A t \in Threads : HasReturned(t) => threads[t].returned[1].marked
    /\ \A t, u \in Threads :
          (HasReturned(t) /\ HasReturned(u)) =>
              heap[threads[t].returned[1].object].marked
                  = heap[threads[u].returned[1].object].marked
    /\ \A t \in Threads :
          HasReturned(t) => heap[threads[t].returned[1].object].marked

-----------------------------------------------------------------------------
(* A policy text parsed, and the string form of the policy parsed again    *)

InitRoundTrip ==
    /\ parser \in PolicyParsers
    /\ text \in PolicyTexts
    /\ pc = Call("PolicyParser.parse")
    /\ Unused(srcExpr) /\ Unused(direct) /\ Unused(otherDirective)
    /\ Unused(policy) /\ Unused(otherPolicy) /\ Unused(resourceURI)
    /\ Unused(resourceType) /\ Unused(protectedDocumentURI) /\ Unused(result)
    /\ Unused(reportType) /\ Unused(matched) /\ Unused(inputDirectives)
    /\ Unused(schemeOnlyArg) /\ Unused(reports)
    /\ Unused(cache) /\ Unused(heap) /\ Unused(threads)

ParsePolicyText ==
    /\ pc = Call("PolicyParser.parse")
    /\ result' \in PolicyParser_parse(parser, text)
    /\ pc' = Return("PolicyParser.parse")
    /\ UNCHANGED <<srcExpr, direct, otherDirective, policy, otherPolicy,
                   resourceURI, resourceType, protectedDocumentURI,
                   reportType, text, parser, matched, inputDirectives,
                   schemeOnlyArg, reports, cache, heap, threads>>

\* str() of the parsed policy, parsed by the same parser
ParseStringForm ==
    /\ pc = Return("PolicyParser.parse")
    /\ result # Policy_INVALID
    /\ matched' \in PolicyParser_parse(parser, Policy___str__(result))
    /\ pc' = Matched("PolicyParser.parse")
    /\ UNCHANGED <<srcExpr, direct, otherDirective, policy, otherPolicy,
                   resourceURI, resourceType, protectedDocumentURI, result,
                   reportType, text, parser, inputDirectives,
                   schemeOnlyArg, reports, cache, heap, threads>>

NextRoundTrip ==
    \/ ParsePolicyText
    \/ ParseStringForm

SpecRoundTrip == InitRoundTrip /\ [][NextRoundTrip]_vars

\* C21: round trip. For every policy text and every PolicyParser (strict or
\* not, expandDefaultSrc or not), when the parsed policy is not
\* Policy.INVALID, parsing its string form with the same parser gives a
\* policy equal to it.
C21_RoundTrip ==
    pc = Matched("PolicyParser.parse") => matched = result

\* the round trip of the policies that have a directive
C21_RoundTripOfDirectives ==
    (pc = Matched("PolicyParser.parse") /\ result.directives # {})
        => matched = result

====
